---------------------------- MODULE Spec2Model ----------------------------
(***************************************************************************)
(* A model of the WebUSB serial-port polyfill (class SerialPort and its    *)
(* two stream adapters, UsbEndpointUnderlyingSource and                     *)
(* UsbEndpointUnderlyingSink).                                              *)
(*                                                                         *)
(* JavaScript runs one task at a time: the code between two awaits is one  *)
(* atomic step.  A method call is a record in `calls` whose pc names the   *)
(* await it is suspended on; the completion of the awaited device          *)
(* operation and the continuation that runs up to the next await are one   *)
(* action.  The USB device is the environment: every operation it is asked *)
(* for completes later, with an outcome chosen by the device.              *)
(***************************************************************************)
EXTENDS Integers, Sequences, FiniteSets, TLC

(***************************************************************************)
(* Bounds of the model.                                                    *)
(***************************************************************************)
MaxCalls == 2      \* method calls of the port that may be suspended at once
MaxStreams == 2    \* stream instances constructed, of both directions together
MaxQueue == 1      \* chunks waiting in a writable stream behind the write in flight
MaxPulls == 1      \* pulls of one readable stream whose transfer is in flight

Calls == 1..MaxCalls
StreamIds == 1..MaxStreams
Null == 0          \* the null / undefined value of readable_ and writable_

(***************************************************************************)
(* Program constants.                                                      *)
(***************************************************************************)
kSetLineCoding == 32
kSetControlLineState == 34
kSendBreak == 35
kDefaultDataBits == 8
kDefaultStopBits == 1
kDefaultParity == "none"
kAcceptableDataBits == {16, 8, 7, 6, 5}
kAcceptableStopBits == {1, 2}
kAcceptableParity == {"none", "even", "odd"}
kParityIndexMapping == <<"none", "odd", "even">>

(***************************************************************************)
(* JavaScript numbers.  The numbers the options carry are integers         *)
(* (Num(n)), numbers with a fractional part (Half(n) is n + 0.5) or absent *)
(* (Undef).  An integer of more than 32 bits is held by what it exceeds    *)
(* 2^32 by (Over(n) is 2^32 + n).                                          *)
(***************************************************************************)
Num(n) == [t |-> "num", v |-> n]
Half(n) == [t |-> "half", v |-> n]
Over(n) == [t |-> "over", v |-> n]
Undef == [t |-> "undefined", v |-> 0]

\* kStopBitsIndexMapping = [1, 1.5, 2]
kStopBitsIndexMapping == <<Num(1), Half(1), Num(2)>>

\* Array.prototype.indexOf: the 0-based index of the first match, or -1.
IndexOf(seq, x) ==
    IF \E i \in 1..Len(seq) : seq[i] = x
    THEN (CHOOSE i \in 1..Len(seq) : seq[i] = x /\ \A j \in 1..(i - 1) : seq[j] # x) - 1
    ELSE -1

\* a ?? b
Coalesce(a, b) == IF a.t = "undefined" THEN b ELSE a

\* The integer a DataView setter stores for a number: ToNumber, then truncation
\* toward zero; undefined is NaN and stores 0.
ToInteger(x) ==
    IF x.t = "num" THEN x.v
    ELSE IF x.t = "half" THEN (IF x.v >= 0 THEN x.v ELSE x.v + 1)
    ELSE 0

ToUint8(n) == n % 256

\* The four bytes of n, most significant first.
BigEndian32(n) ==
    << (n \div 16777216) % 256,
       (n \div 65536) % 256,
       (n \div 256) % 256,
       n % 256 >>

\* DataView.setUint32(0, n, true): the four bytes of n modulo 2^32, least
\* significant first (\div rounds down, so a negative n gives the bytes of its
\* two's complement).
LittleEndian32(n) ==
    << n % 256,
       (n \div 256) % 256,
       (n \div 65536) % 256,
       (n \div 16777216) % 256 >>

(***************************************************************************)
(* Option validation.                                                      *)
(***************************************************************************)
\* baudRate % 1 === 0: true of every integer, of either sign and of any size.
isValidBaudRate(baudRate) == baudRate.t \in {"num", "over"}

isValidDataBits(dataBits) ==
    IF dataBits.t = "undefined" THEN TRUE
    ELSE dataBits.t = "num" /\ dataBits.v \in kAcceptableDataBits

isValidStopBits(stopBits) ==
    IF stopBits.t = "undefined" THEN TRUE
    ELSE stopBits.t = "num" /\ stopBits.v \in kAcceptableStopBits

\* isValidParity without its check of the accepted set.
isValidParityAnything(parity) == TRUE

isValidParity(parity) ==
    IF parity = "undefined" THEN TRUE
    ELSE parity \in kAcceptableParity

\* validateOptions with the parity checked before the other fields.
validateOptionsParityFirst(o) ==
    IF ~isValidParity(o.parity) THEN "parity"
    ELSE IF ~isValidBaudRate(o.baudRate) THEN "baudRate"
    ELSE IF ~isValidDataBits(o.dataBits) THEN "dataBits"
    ELSE IF ~isValidStopBits(o.stopBits) THEN "stopBits"
    ELSE "ok"

\* validateOptions: "ok", or the field whose check throws the RangeError.
validateOptions(o) ==
    IF ~isValidBaudRate(o.baudRate) THEN "baudRate"
    ELSE IF ~isValidDataBits(o.dataBits) THEN "dataBits"
    ELSE IF ~isValidStopBits(o.stopBits) THEN "stopBits"
    ELSE IF ~isValidParity(o.parity) THEN "parity"
    ELSE "ok"

\* view.setUint32(0, baudRate, true): the bytes of the baud rate modulo 2^32.
BaudRateBytes(baudRate) ==
    IF baudRate.t = "over"
    THEN LittleEndian32(baudRate.v)
    ELSE LittleEndian32(ToInteger(baudRate))

\* The 7-byte payload setLineCoding builds from the options.
LineCodingBuffer(o) ==
    BaudRateBytes(o.baudRate) \o
    << ToUint8(IndexOf(kStopBitsIndexMapping, Coalesce(o.stopBits, Num(kDefaultStopBits)))),
       ToUint8(IndexOf(kParityIndexMapping,
                       IF o.parity = "undefined" THEN kDefaultParity ELSE o.parity)),
       ToUint8(ToInteger(Coalesce(o.dataBits, Num(kDefaultDataBits)))) >>

\* A merge that takes every field from b, given or not.
MergeOptionsReplaces(a, b) == b

\* {...a, ...b}: the fields b gives override those of a.
MergeOptions(a, b) ==
    [baudRate |-> Coalesce(b.baudRate, a.baudRate),
     dataBits |-> Coalesce(b.dataBits, a.dataBits),
     stopBits |-> Coalesce(b.stopBits, a.stopBits),
     parity   |-> IF b.parity = "undefined" THEN a.parity ELSE b.parity]

NoOptions == [baudRate |-> Undef, dataBits |-> Undef, stopBits |-> Undef,
              parity |-> "undefined"]

\* The options the caller passes to open() and reconfigure(): a complete valid
\* record, a partial valid one, and one record for each field with only that
\* field invalid.
ValidOptions ==
    [baudRate |-> Num(9600), dataBits |-> Num(8), stopBits |-> Num(1), parity |-> "none"]

OptionInputs ==
    { ValidOptions,
      [baudRate |-> Num(115200), dataBits |-> Undef, stopBits |-> Num(2), parity |-> "undefined"],
      [ValidOptions EXCEPT !.baudRate = Half(9600)],
      [ValidOptions EXCEPT !.dataBits = Num(9)],
      [ValidOptions EXCEPT !.stopBits = Num(3)],
      [ValidOptions EXCEPT !.parity = "mark"] }

(***************************************************************************)
(* Output signals.  A field of the partial record passed to setSignals is  *)
(* "true", "false" or "undefined".                                         *)
(***************************************************************************)
NoSignals == [dataTerminalReady |-> "undefined", requestToSend |-> "undefined",
              break |-> "undefined"]

\* A merge that keeps the remembered signals as they were.
MergeSignalsKeepsOld(a, b) == a

\* {...a, ...b}
MergeSignals(a, b) ==
    [f \in DOMAIN a |-> IF b[f] = "undefined" THEN a[f] ELSE b[f]]

\* A bitmap that carries DTR only.
ControlLineValueDtrOnly(s) == IF s.dataTerminalReady = "true" THEN 1 ELSE 0

\* The Set_Control_Line_State bitmap of the remembered signals.
ControlLineValue(s) ==
    (IF s.dataTerminalReady = "true" THEN 1 ELSE 0) +
    (IF s.requestToSend = "true" THEN 2 ELSE 0)

\* The Send_Break duration of the remembered signals.
BreakValue(s) == IF s.break = "true" THEN 65535 ELSE 0

\* The partial records the caller passes to setSignals().
SignalInputs ==
    { [dataTerminalReady |-> "undefined", requestToSend |-> "true", break |-> "undefined"],
      [dataTerminalReady |-> "false", requestToSend |-> "undefined", break |-> "true"],
      [dataTerminalReady |-> "undefined", requestToSend |-> "undefined", break |-> "false"],
      [dataTerminalReady |-> "true", requestToSend |-> "false", break |-> "undefined"],
      NoSignals }

(***************************************************************************)
(* State.                                                                  *)
(***************************************************************************)
VARIABLES
    serialOptions_,      \* SerialPort.serialOptions_
    readable_,           \* SerialPort.readable_: a readable stream id, or Null
    writable_,           \* SerialPort.writable_: a writable stream id, or Null
    outputSignals_,      \* SerialPort.outputSignals_
    controlInterface_,   \* interface number of SerialPort.controlInterface_
    transferInterface_,  \* interface number of SerialPort.transferInterface_
    opened,              \* USBDevice.opened
    configured,          \* USBDevice.configuration !== null
    claimed,             \* interface numbers claimed on the device
    calls,               \* the port's method calls, each suspended at an await or settled
    rState,              \* per readable stream: "none", "readable", "closed", "errored"
    rPending,            \* per readable stream: transferIn calls of its source in flight
    wState,              \* per writable stream: "none", "writable", "erroring", "errored"
    wPending,            \* per writable stream: transferOut calls of its sink in flight
    wQueued,             \* per writable stream: the chunks queued behind the write in flight
    inPacketSize,        \* SerialPort.inEndpoint_.packetSize
    adapterEvent         \* the last thing an adapter did that the model was asked to record

portVars == <<serialOptions_, readable_, writable_, outputSignals_,
              controlInterface_, transferInterface_>>
deviceVars == <<opened, configured, claimed>>
streamVars == <<rState, rPending, wState, wPending, wQueued>>
adapterVars == <<inPacketSize, adapterEvent>>
vars == <<serialOptions_, readable_, writable_, outputSignals_,
          controlInterface_, transferInterface_, opened, configured, claimed,
          calls, rState, rPending, wState, wPending, wQueued, inPacketSize,
          adapterEvent>>

\* Nothing recorded.
NoEvent ==
    [kind |-> "none", desiredSize |-> 0, length |-> 0,
     outcome |-> "none", data |-> "none",
     enqueued |-> 0, errors |-> 0, onErrors |-> 0, transfers |-> <<>>]

\* The packet sizes of the bulk IN endpoint.
PacketSizes == {8, 64}

\* A device operation a call is suspended on.
NoRequest == [kind |-> "none", request |-> 0, value |-> 0, index |-> 0, data |-> <<>>]
DeviceRequest(kind, index) ==
    [kind |-> kind, request |-> 0, value |-> 0, index |-> index, data |-> <<>>]
ControlTransferOut(request, value, index, data) ==
    [kind |-> "controlTransferOut", request |-> request, value |-> value,
     index |-> index, data |-> data]

\* A call slot nobody uses.
IdleCall ==
    [op |-> "idle", pc |-> "idle", signals |-> NoSignals, request |-> NoRequest,
     failed |-> "none", status |-> "none", result |-> "none",
     rejected |-> FALSE, cancelOf |-> Null, abortOf |-> Null]

\* The state after new SerialPort(device): the device handle is whatever the
\* caller passed in, and the constructor resolved the two interfaces.
Init ==
    /\ serialOptions_ = NoOptions
    /\ readable_ = Null
    /\ writable_ = Null
    /\ outputSignals_ = [dataTerminalReady |-> "false", requestToSend |-> "false",
                         break |-> "false"]
    /\ controlInterface_ = 0
    /\ transferInterface_ \in {0, 1}
    /\ opened = FALSE
    /\ configured \in BOOLEAN
    /\ claimed = {}
    /\ calls = [c \in Calls |-> IdleCall]
    /\ rState = [s \in StreamIds |-> "none"]
    /\ rPending = [s \in StreamIds |-> 0]
    /\ wState = [s \in StreamIds |-> "none"]
    /\ wPending = [s \in StreamIds |-> 0]
    /\ wQueued = [s \in StreamIds |-> <<>>]
    /\ inPacketSize \in PacketSizes
    /\ adapterEvent = NoEvent

\* The outcomes of a device operation: it resolves ("ok"), resolves with a
\* non-success transfer status ("status"), or rejects ("throw").  Only open()
\* can succeed on a device that is not open.
StateChangeOutcomes == IF opened THEN {"ok", "throw"} ELSE {"throw"}
TransferOutcomes == IF opened THEN {"ok", "status", "throw"} ELSE {"throw"}

Suspend(c, pc, request) ==
    [calls[c] EXCEPT !.pc = pc, !.request = request]
Settle(c, result) ==
    [calls[c] EXCEPT !.pc = "done", !.request = NoRequest, !.result = result]

\* A new call takes the first slot that is not in use.
FreeSlot(c) ==
    /\ calls[c].op = "idle"
    /\ \A d \in Calls : d < c => calls[d].op # "idle"

(***************************************************************************)
(* SerialPort.setLineCoding and SerialPort.setSignals up to their first    *)
(* await: the request each issues.                                         *)
(***************************************************************************)
setLineCoding ==
    ControlTransferOut(kSetLineCoding, 0, controlInterface_,
                       LineCodingBuffer(serialOptions_))

\* The catch block of open(): close the device if it is open, then throw.
OpenCatch(c, how, isOpened) ==
    LET failedCall == [calls[c] EXCEPT !.failed = how]
    IN  IF isOpened
        THEN [failedCall EXCEPT !.pc = "cleanup", !.request = DeviceRequest("close", 0)]
        ELSE [failedCall EXCEPT !.pc = "done", !.request = NoRequest,
                                !.result = "SetupError"]

(***************************************************************************)
(* SerialPort.open                                                         *)
(***************************************************************************)
\* open(options) up to its first await: the options are stored, then
\* validated; a RangeError settles the call at once, otherwise device.open()
\* is issued.
CallOpen(c, options) ==
    /\ FreeSlot(c)
    /\ serialOptions_' = options
    /\ calls' = [calls EXCEPT ![c] =
         IF validateOptions(options) # "ok"
         THEN [IdleCall EXCEPT !.op = "open", !.pc = "done", !.result = "RangeError",
                               !.failed = "validation"]
         ELSE [IdleCall EXCEPT !.op = "open", !.pc = "devOpen",
                               !.request = DeviceRequest("open", 0)]]
    /\ UNCHANGED <<readable_, writable_, outputSignals_, controlInterface_,
                   transferInterface_, deviceVars, streamVars>>
    /\ UNCHANGED adapterVars

\* device.open() completes; then selectConfiguration(1) if no configuration is
\* selected, else claimInterface(control).
OpenDeviceDone(c, outcome) ==
    /\ calls[c].op = "open" /\ calls[c].pc = "devOpen"
    /\ outcome \in {"ok", "throw"}
    /\ IF outcome = "ok"
       THEN /\ opened' = TRUE
            /\ calls' = [calls EXCEPT ![c] =
                 IF ~configured
                 THEN Suspend(c, "selectConfiguration", DeviceRequest("selectConfiguration", 1))
                 ELSE Suspend(c, "claimControl",
                              DeviceRequest("claimInterface", controlInterface_))]
       ELSE /\ opened' = opened
            /\ calls' = [calls EXCEPT ![c] = OpenCatch(c, "throw", opened)]
    /\ UNCHANGED <<portVars, configured, claimed, streamVars>>
    /\ UNCHANGED adapterVars

\* device.selectConfiguration(1) completes; then claimInterface(control).
SelectConfigurationDone(c, outcome) ==
    /\ calls[c].op = "open" /\ calls[c].pc = "selectConfiguration"
    /\ outcome \in StateChangeOutcomes
    /\ IF outcome = "ok"
       THEN /\ configured' = TRUE
            /\ calls' = [calls EXCEPT ![c] =
                 Suspend(c, "claimControl",
                         DeviceRequest("claimInterface", controlInterface_))]
       ELSE /\ configured' = configured
            /\ calls' = [calls EXCEPT ![c] =
                 OpenCatch(c, "throw", opened)]
    /\ UNCHANGED <<portVars, opened, claimed, streamVars>>
    /\ UNCHANGED adapterVars

\* device.claimInterface(control) completes; then claimInterface(transfer) if
\* it is another interface, else setLineCoding().
ClaimControlDone(c, outcome) ==
    /\ calls[c].op = "open" /\ calls[c].pc = "claimControl"
    /\ outcome \in StateChangeOutcomes
    /\ IF outcome = "ok"
       THEN /\ claimed' = claimed \cup {controlInterface_}
            /\ calls' = [calls EXCEPT ![c] =
                 IF controlInterface_ # transferInterface_
                 THEN Suspend(c, "claimTransfer",
                              DeviceRequest("claimInterface", transferInterface_))
                 ELSE Suspend(c, "lineCoding", setLineCoding)]
       ELSE /\ claimed' = claimed
            /\ calls' = [calls EXCEPT ![c] = OpenCatch(c, "throw", opened)]
    /\ UNCHANGED <<portVars, opened, configured, streamVars>>
    /\ UNCHANGED adapterVars

\* device.claimInterface(transfer) completes; then setLineCoding().
ClaimTransferDone(c, outcome) ==
    /\ calls[c].op = "open" /\ calls[c].pc = "claimTransfer"
    /\ outcome \in StateChangeOutcomes
    /\ IF outcome = "ok"
       THEN /\ claimed' = claimed \cup {transferInterface_}
            /\ calls' = [calls EXCEPT ![c] = Suspend(c, "lineCoding", setLineCoding)]
       ELSE /\ claimed' = claimed
            /\ calls' = [calls EXCEPT ![c] = OpenCatch(c, "throw", opened)]
    /\ UNCHANGED <<portVars, opened, configured, streamVars>>
    /\ UNCHANGED adapterVars

(***************************************************************************)
(* SerialPort.setSignals                                                   *)
(***************************************************************************)
\* setSignals computing the bitmap from the signals remembered before the
\* merge.
setSignalsUnmerged(c, signals, merged) ==
    LET call == [calls[c] EXCEPT !.signals = signals]
    IN  IF signals.dataTerminalReady # "undefined" \/ signals.requestToSend # "undefined"
        THEN [call EXCEPT !.pc = "controlLine",
                          !.request = ControlTransferOut(kSetControlLineState,
                                         ControlLineValue(outputSignals_), controlInterface_, <<>>)]
        ELSE IF signals.break # "undefined"
        THEN [call EXCEPT !.pc = "sendBreak",
                          !.request = ControlTransferOut(kSendBreak, BreakValue(merged),
                                                         controlInterface_, <<>>)]
        ELSE [call EXCEPT !.pc = "done", !.request = NoRequest, !.result = "ok"]

\* setSignals(signals) up to its first await, the remembered signals already
\* being `merged`: the Set_Control_Line_State transfer if DTR or RTS is given,
\* else the Send_Break transfer if break is given, else nothing.
setSignals(c, signals, merged) ==
    LET call == [calls[c] EXCEPT !.signals = signals]
    IN  IF signals.dataTerminalReady # "undefined" \/ signals.requestToSend # "undefined"
        THEN [call EXCEPT !.pc = "controlLine",
                          !.request = ControlTransferOut(kSetControlLineState,
                                         ControlLineValue(merged), controlInterface_, <<>>)]
        ELSE IF signals.break # "undefined"
        THEN [call EXCEPT !.pc = "sendBreak",
                          !.request = ControlTransferOut(kSendBreak, BreakValue(merged),
                                                         controlInterface_, <<>>)]
        ELSE [call EXCEPT !.pc = "done", !.request = NoRequest, !.result = "ok"]

\* The caller calls setSignals(signals).
CallSetSignals(c, signals) ==
    /\ FreeSlot(c)
    /\ outputSignals_' = MergeSignals(outputSignals_, signals)
    /\ calls' = [calls EXCEPT ![c] =
         [setSignals(c, signals, outputSignals_') EXCEPT !.op = "setSignals"]]
    /\ UNCHANGED <<serialOptions_, readable_, writable_, controlInterface_,
                   transferInterface_, deviceVars, streamVars>>
    /\ UNCHANGED adapterVars

\* The Set_Control_Line_State transfer of a setSignals() call completes (its
\* status is not looked at); then the Send_Break transfer if break was given,
\* with the break value remembered now.
SetSignalsControlLineDone(c, outcome) ==
    /\ calls[c].op = "setSignals" /\ calls[c].pc = "controlLine"
    /\ outcome \in TransferOutcomes
    /\ calls' = [calls EXCEPT ![c] =
         IF outcome = "throw"
         THEN [Settle(c, "TransportError") EXCEPT !.failed = "throw"]
         ELSE IF calls[c].signals.break # "undefined"
         THEN [Suspend(c, "sendBreak",
                       ControlTransferOut(kSendBreak, BreakValue(outputSignals_),
                                          controlInterface_, <<>>))
               EXCEPT !.status = outcome]
         ELSE [Settle(c, "ok") EXCEPT !.status = outcome]]
    /\ UNCHANGED <<portVars, deviceVars, streamVars>>
    /\ UNCHANGED adapterVars

\* The Send_Break transfer of a setSignals() call completes.
SetSignalsBreakDone(c, outcome) ==
    /\ calls[c].op = "setSignals" /\ calls[c].pc = "sendBreak"
    /\ outcome \in TransferOutcomes
    /\ calls' = [calls EXCEPT ![c] =
         IF outcome = "throw"
         THEN [Settle(c, "TransportError") EXCEPT !.failed = "throw"]
         ELSE [Settle(c, "ok") EXCEPT !.status = outcome]]
    /\ UNCHANGED <<portVars, deviceVars, streamVars>>
    /\ UNCHANGED adapterVars

(***************************************************************************)
(* SerialPort.open, continued: line coding, DTR, and the catch block.      *)
(***************************************************************************)
\* The Set_Line_Coding transfer of open() completes: a non-success status or a
\* rejection goes to the catch block, success goes on to
\* setSignals({dataTerminalReady: true}).
OpenLineCodingDone(c, outcome) ==
    /\ calls[c].op = "open" /\ calls[c].pc = "lineCoding"
    /\ outcome \in TransferOutcomes
    /\ IF outcome = "ok"
       THEN /\ outputSignals_' = MergeSignals(outputSignals_,
                                    [NoSignals EXCEPT !.dataTerminalReady = "true"])
            /\ calls' = [calls EXCEPT ![c] =
                 setSignals(c, [NoSignals EXCEPT !.dataTerminalReady = "true"],
                            outputSignals_')]
       ELSE /\ outputSignals_' = outputSignals_
            /\ calls' = [calls EXCEPT ![c] = OpenCatch(c, outcome, opened)]
    /\ UNCHANGED <<serialOptions_, readable_, writable_, controlInterface_,
                   transferInterface_, deviceVars, streamVars>>
    /\ UNCHANGED adapterVars

\* The Set_Control_Line_State transfer of open() completes: a rejection goes
\* to the catch block; otherwise (the status is not looked at) open() resolves.
OpenControlLineDone(c, outcome) ==
    /\ calls[c].op = "open" /\ calls[c].pc = "controlLine"
    /\ outcome \in TransferOutcomes
    /\ calls' = [calls EXCEPT ![c] =
         IF outcome = "throw"
         THEN OpenCatch(c, "throw", opened)
         ELSE [Settle(c, "ok") EXCEPT !.status = outcome]]
    /\ UNCHANGED <<portVars, deviceVars, streamVars>>
    /\ UNCHANGED adapterVars

\* The device.close() of the catch block completes: the device is closed, its
\* interfaces are released, and open() throws the wrapped error.
OpenCleanupDone(c) ==
    /\ calls[c].op = "open" /\ calls[c].pc = "cleanup"
    /\ opened' = FALSE
    /\ claimed' = {}
    /\ calls' = [calls EXCEPT ![c] = Settle(c, "SetupError")]
    /\ UNCHANGED <<portVars, configured, streamVars>>
    /\ UNCHANGED adapterVars

(***************************************************************************)
(* SerialPort.reconfigure                                                  *)
(***************************************************************************)
\* reconfigure(options): merge, validate, setLineCoding().
CallReconfigure(c, options) ==
    /\ FreeSlot(c)
    /\ serialOptions_' = MergeOptions(serialOptions_, options)
    /\ calls' = [calls EXCEPT ![c] =
         IF validateOptions(serialOptions_') # "ok"
         THEN [IdleCall EXCEPT !.op = "reconfigure", !.pc = "done",
                               !.result = "RangeError", !.failed = "validation"]
         ELSE [IdleCall EXCEPT !.op = "reconfigure", !.pc = "lineCoding",
                 !.request = ControlTransferOut(kSetLineCoding, 0, controlInterface_,
                                                LineCodingBuffer(serialOptions_'))]]
    /\ UNCHANGED <<readable_, writable_, outputSignals_, controlInterface_,
                   transferInterface_, deviceVars, streamVars>>
    /\ UNCHANGED adapterVars

\* The Set_Line_Coding transfer of reconfigure() completes.
ReconfigureLineCodingDone(c, outcome) ==
    /\ calls[c].op = "reconfigure" /\ calls[c].pc = "lineCoding"
    /\ outcome \in TransferOutcomes
    /\ calls' = [calls EXCEPT ![c] =
         IF outcome = "ok" THEN [Settle(c, "ok") EXCEPT !.status = "ok"]
         ELSE IF outcome = "status"
         THEN [Settle(c, "NetworkError") EXCEPT !.failed = "status"]
         ELSE [Settle(c, "TransportError") EXCEPT !.failed = "throw"]]
    /\ UNCHANGED <<portVars, deviceVars, streamVars>>
    /\ UNCHANGED adapterVars

(***************************************************************************)
(* The stream adapters and the accessors that construct them.              *)
(***************************************************************************)
\* The number of streams constructed so far.
StreamsConstructed ==
    Cardinality({s \in StreamIds : rState[s] # "none"}) +
    Cardinality({w \in StreamIds : wState[w] # "none"})

\* The id the next stream constructed gets: ids are handed out in order (the
\* id after the last one when all ids of the direction are in use).
FreshId(state) ==
    IF \E s \in StreamIds : state[s] = "none"
    THEN CHOOSE s \in StreamIds : state[s] = "none" /\ \A t \in 1..(s - 1) : state[t] # "none"
    ELSE MaxStreams + 1

\* A getter that constructs a stream on every read of an open port.
ReadableConstructsOnEveryRead == opened

\* What the getters do and return.
ReadableConstructs == readable_ = Null /\ opened
WritableConstructs == writable_ = Null /\ opened

\* The value each getter returns.
ReadableValue == IF ReadableConstructs THEN FreshId(rState) ELSE readable_
WritableValue == IF WritableConstructs THEN FreshId(wState) ELSE writable_

\* The onError callbacks the getters hand to the adapters: the cached streams
\* after the callback has run (first, a callback that clears both streams and
\* one that clears none).
ReadableOnErrorClearsBoth == [readable |-> Null, writable |-> Null]
ReadableOnErrorClearsNothing == [readable |-> readable_, writable |-> writable_]
ReadableOnError == [readable |-> Null, writable |-> writable_]
WritableOnError == [readable |-> readable_, writable |-> Null]

\* get readable(): constructs a ReadableStream over a new
\* UsbEndpointUnderlyingSource if none is cached and the device is open.
GetReadable ==
    /\ IF ReadableConstructs
       THEN /\ StreamsConstructed < MaxStreams
            /\ readable_' = ReadableValue
            /\ rState' = [rState EXCEPT ![ReadableValue] = "readable"]
       ELSE UNCHANGED <<readable_, rState>>
    /\ UNCHANGED <<serialOptions_, writable_, outputSignals_, controlInterface_,
                   transferInterface_, deviceVars, calls, rPending, wState, wPending,
                   wQueued>>
    /\ UNCHANGED adapterVars

\* get writable(): the same for a WritableStream over a new
\* UsbEndpointUnderlyingSink.
GetWritable ==
    /\ IF WritableConstructs
       THEN /\ StreamsConstructed < MaxStreams
            /\ writable_' = WritableValue
            /\ wState' = [wState EXCEPT ![WritableValue] = "writable"]
       ELSE UNCHANGED <<writable_, wState>>
    /\ UNCHANGED <<serialOptions_, readable_, outputSignals_, controlInterface_,
                   transferInterface_, deviceVars, calls, rState, rPending, wPending,
                   wQueued>>
    /\ UNCHANGED adapterVars

\* Math.ceil(a / b) for integers a and b > 0.
Ceil(a, b) == IF a % b = 0 THEN a \div b ELSE (a \div b) + 1

\* A pull() that always asks for one packet.
ChunkSizeOnePacket(desiredSize, packetSize) == packetSize

\* The chunkSize pull() computes: controller.desiredSize rounded up to a whole
\* number of packets, or one packet when desiredSize is falsy (0).
ChunkSize(desiredSize, packetSize) ==
    IF desiredSize # 0
    THEN Ceil(desiredSize, packetSize) * packetSize
    ELSE packetSize

\* A pull() that issues two transferIn calls.
PullIssuedTwice(s) ==
    /\ rState[s] = "readable"
    /\ rPending[s] < MaxPulls
    /\ rPending' = [rPending EXCEPT ![s] = @ + 2]
    /\ UNCHANGED <<portVars, deviceVars, calls, rState, wState, wPending, wQueued>>

\* The stream calls pull() of source s (the consumer has demand): one
\* transferIn is issued and pull() returns.
PullIssued(s) ==
    /\ rState[s] = "readable"
    /\ rPending[s] < MaxPulls
    /\ rPending' = [rPending EXCEPT ![s] = @ + 1]
    /\ UNCHANGED <<portVars, deviceVars, calls, rState, wState, wPending, wQueued>>

Pull(s) == PullIssued(s) /\ UNCHANGED adapterVars

\* The same, recording the transferIn it issues.
ObservedPull(s, desiredSize) ==
    /\ PullIssued(s)
    /\ adapterEvent' = [NoEvent EXCEPT !.kind = "transferIn",
                                       !.desiredSize = desiredSize,
                                       !.length = ChunkSize(desiredSize, inPacketSize)]
    /\ UNCHANGED inPacketSize

\* controller.error(e) of a readable stream: nothing on a stream that is not
\* readable.
ControllerError(state) == IF state = "readable" THEN "errored" ELSE state

\* controller.enqueue(chunk) that takes the chunk whatever the stream's state.
EnqueueAcceptsInAnyState(state, data) == data = "bytes"

\* controller.enqueue(chunk) of a byte stream takes the chunk if the stream is
\* readable and the chunk is not empty, and throws a TypeError otherwise.
EnqueueAccepts(state, data) == state = "readable" /\ data = "bytes"

\* The rest of pull() after `await transferIn`, on a stream in `state`, the
\* transfer having completed with `outcome` and result.data being absent
\* ("none"), empty or carrying bytes:
\*   - a non-success status: controller.error and onError_;
\*   - result.data present: controller.enqueue, which may throw;
\*   - the catch block (transferIn or enqueue threw): controller.error and
\*     onError_.
pullResumed(state, outcome, data) ==
    LET afterStatus == IF outcome = "status" THEN ControllerError(state) ELSE state
        tries == outcome # "throw" /\ data # "none"
        enqueues == tries /\ EnqueueAccepts(afterStatus, data)
        caught == outcome = "throw" \/ (tries /\ ~enqueues)
        calls_ == (IF outcome = "status" THEN 1 ELSE 0) + (IF caught THEN 1 ELSE 0)
    IN  [state |-> IF caught THEN ControllerError(afterStatus) ELSE afterStatus,
         enqueued |-> IF enqueues THEN 1 ELSE 0,
         errors |-> calls_,
         onErrors |-> calls_]

\* A transferIn of source s completes and the rest of pull() runs; onError_
\* clears the port's readable_.
TransferInSettled(s, outcome, data) ==
    /\ rPending[s] > 0
    /\ outcome \in TransferOutcomes
    /\ outcome = "throw" => data = "none"
    /\ rPending' = [rPending EXCEPT ![s] = @ - 1]
    /\ rState' = [rState EXCEPT ![s] = pullResumed(@, outcome, data).state]
    /\ IF pullResumed(rState[s], outcome, data).onErrors > 0
       THEN /\ readable_' = ReadableOnError.readable
            /\ writable_' = ReadableOnError.writable
       ELSE UNCHANGED <<readable_, writable_>>
    /\ UNCHANGED <<serialOptions_, outputSignals_, controlInterface_,
                   transferInterface_, deviceVars, calls, wState, wPending, wQueued>>

\* A transferIn completes, a result always carrying bytes.
TransferInDone(s, outcome) ==
    /\ TransferInSettled(s, outcome, IF outcome = "throw" THEN "none" ELSE "bytes")
    /\ UNCHANGED adapterVars

\* The same with any result.data, recording what the rest of pull() did.
ObservedTransferInDone(s, outcome, data) ==
    /\ TransferInSettled(s, outcome, data)
    /\ adapterEvent' =
         [NoEvent EXCEPT !.kind = "pullResumed",
                         !.outcome = outcome, !.data = data,
                         !.enqueued = pullResumed(rState[s], outcome, data).enqueued,
                         !.errors = pullResumed(rState[s], outcome, data).errors,
                         !.onErrors = pullResumed(rState[s], outcome, data).onErrors]
    /\ UNCHANGED inPacketSize

\* A sink whose write() issues the transfer twice.
writeTwice(chunk) == <<chunk, chunk>>

\* UsbEndpointUnderlyingSink.write(chunk) up to its await: the transferOut
\* calls it issues.
write(chunk) == <<chunk>>

\* ByteLengthQueuingStrategy.size(chunk) is chunk.byteLength: a number for
\* bytes and for any other object that has the property, undefined for a
\* value that lacks it (a string), which the stream refuses with a RangeError.
HasByteLength(chunk) == chunk \in {"bytes", "object"}

\* The producer writes a chunk to writable stream w.  A chunk without a
\* byteLength errors the stream and never gets to the sink.  Otherwise the
\* stream calls write() of the sink, which issues the transferOut, unless a
\* write is in flight, in which case the chunk is queued.
WriteChunk(w, chunk) ==
    /\ wState[w] = "writable"
    /\ IF ~HasByteLength(chunk)
       THEN /\ wState' = [wState EXCEPT ![w] =
                            IF wPending[w] > 0 THEN "erroring" ELSE "errored"]
            /\ wQueued' = [wQueued EXCEPT ![w] = <<>>]
            /\ wPending' = wPending
       ELSE IF wPending[w] = 0
       THEN /\ wPending' = [wPending EXCEPT ![w] = Len(write(chunk))]
            /\ UNCHANGED <<wState, wQueued>>
       ELSE /\ Len(wQueued[w]) < MaxQueue
            /\ wQueued' = [wQueued EXCEPT ![w] = Append(@, chunk)]
            /\ UNCHANGED <<wState, wPending>>
    /\ UNCHANGED <<portVars, deviceVars, calls, rState, rPending>>

\* The producer writes bytes.
Write(w) == WriteChunk(w, "bytes") /\ UNCHANGED adapterVars

\* The producer writes any chunk; the transferOut calls are recorded.
ObservedWrite(w, chunk) ==
    /\ WriteChunk(w, chunk)
    /\ adapterEvent' =
         [NoEvent EXCEPT !.kind = "write", !.data = chunk,
                         !.transfers = IF HasByteLength(chunk) /\ wPending[w] = 0
                                       THEN write(chunk) ELSE <<>>]
    /\ UNCHANGED inPacketSize

\* The transferOut of sink w completes and the rest of write() runs: on a
\* non-success status or a rejection, controller.error and onError_, which
\* clears the port's writable_.  Then the stream goes on: it becomes errored
\* if it was erroring (errored by write(), or aborted), else it hands the next
\* queued chunk to write().
TransferOutSettled(w, outcome) ==
    /\ wPending[w] > 0
    /\ outcome \in TransferOutcomes
    /\ writable_' = IF outcome = "ok" THEN writable_ ELSE WritableOnError.writable
    /\ readable_' = IF outcome = "ok" THEN readable_ ELSE WritableOnError.readable
    /\ IF outcome = "ok" /\ wState[w] = "writable"
       THEN /\ wState' = wState
            /\ IF wQueued[w] # <<>>
               THEN /\ wQueued' = [wQueued EXCEPT ![w] = Tail(@)]
                    /\ wPending' = [wPending EXCEPT ![w] = @ - 1 + Len(write(Head(wQueued[w])))]
               ELSE /\ wQueued' = wQueued
                    /\ wPending' = [wPending EXCEPT ![w] = @ - 1]
       ELSE /\ wState' = [wState EXCEPT ![w] = "errored"]
            /\ wQueued' = [wQueued EXCEPT ![w] = <<>>]
            /\ wPending' = [wPending EXCEPT ![w] = @ - 1]
    /\ UNCHANGED <<serialOptions_, outputSignals_, controlInterface_,
                   transferInterface_, deviceVars, calls, rState, rPending>>

TransferOutDone(w, outcome) == TransferOutSettled(w, outcome) /\ UNCHANGED adapterVars

\* The same, recording the outcome and the transferOut calls of the next
\* write().
ObservedTransferOutDone(w, outcome) ==
    /\ TransferOutSettled(w, outcome)
    /\ adapterEvent' =
         [NoEvent EXCEPT !.kind = "writeResumed",
                         !.outcome = outcome,
                         !.data = IF wQueued[w] # <<>> THEN Head(wQueued[w]) ELSE "none",
                         !.transfers = IF outcome = "ok" /\ wState[w] = "writable"
                                          /\ wQueued[w] # <<>>
                                       THEN write(Head(wQueued[w])) ELSE <<>>]
    /\ UNCHANGED inPacketSize

(***************************************************************************)
(* SerialPort.close                                                        *)
(***************************************************************************)
\* close() up to `await Promise.all(promises)`: cancel() on the cached
\* readable and abort() on the cached writable.  Either rejects on a stream
\* its consumer or producer holds locked; cancel() closes a readable stream at
\* once, without waiting for the transfer its source has in flight; abort()
\* resolves once the write in flight, if any, has finished.
CallClose(c, lockedR, lockedW) ==
    /\ FreeSlot(c)
    /\ rState' = IF readable_ # Null /\ ~lockedR /\ rState[readable_] = "readable"
                 THEN [rState EXCEPT ![readable_] = "closed"]
                 ELSE rState
    /\ IF writable_ # Null /\ ~lockedW /\ wState[writable_] = "writable"
       THEN /\ wState' = [wState EXCEPT ![writable_] =
                            IF wPending[writable_] > 0 THEN "erroring" ELSE "errored"]
            /\ wQueued' = [wQueued EXCEPT ![writable_] = <<>>]
       ELSE UNCHANGED <<wState, wQueued>>
    /\ calls' = [calls EXCEPT ![c] =
         [IdleCall EXCEPT !.op = "close", !.pc = "teardown",
            !.rejected = \/ (readable_ # Null /\ (lockedR \/ rState[readable_] = "errored"))
                         \/ (writable_ # Null /\ lockedW),
            !.cancelOf = IF readable_ # Null /\ ~lockedR THEN readable_ ELSE Null,
            !.abortOf = IF writable_ # Null /\ ~lockedW THEN writable_ ELSE Null]]
    /\ UNCHANGED <<portVars, deviceVars, rPending, wPending>>
    /\ UNCHANGED adapterVars

\* close() going on without awaiting the promise of abort().
AbortNotAwaited(w) == TRUE

\* An abort() whose promise never settles.
AbortNeverSettles(w) == FALSE

\* The promise of writable stream w's abort() has resolved: the stream is
\* errored, which it becomes when no write is in flight any more.
AbortSettled(w) == wState[w] = "errored"

\* Promise.all settles: it rejects if cancel() or abort() rejected, and close()
\* throws; else it resolves once abort() has.  Then both cached streams are
\* cleared and, if the device is open,
\* setSignals({dataTerminalReady: false, requestToSend: false}) is called.
CloseTeardownDone(c) ==
    /\ calls[c].op = "close" /\ calls[c].pc = "teardown"
    /\ IF calls[c].rejected
       THEN /\ calls' = [calls EXCEPT ![c] =
                 [Settle(c, "TypeError") EXCEPT !.failed = "throw"]]
            /\ UNCHANGED <<readable_, writable_, outputSignals_>>
       ELSE /\ calls[c].abortOf # Null => AbortSettled(calls[c].abortOf)
            /\ readable_' = Null
            /\ writable_' = Null
            /\ IF opened
               THEN /\ outputSignals_' = MergeSignals(outputSignals_,
                          [NoSignals EXCEPT !.dataTerminalReady = "false",
                                            !.requestToSend = "false"])
                    /\ calls' = [calls EXCEPT ![c] =
                         setSignals(c, [NoSignals EXCEPT !.dataTerminalReady = "false",
                                                         !.requestToSend = "false"],
                                    outputSignals_')]
               ELSE /\ outputSignals_' = outputSignals_
                    /\ calls' = [calls EXCEPT ![c] = Settle(c, "ok")]
    /\ UNCHANGED <<serialOptions_, controlInterface_, transferInterface_, deviceVars,
                   streamVars>>
    /\ UNCHANGED adapterVars

\* The Set_Control_Line_State transfer of close() completes: a rejection makes
\* close() throw; otherwise device.close() is issued.
CloseControlLineDone(c, outcome) ==
    /\ calls[c].op = "close" /\ calls[c].pc = "controlLine"
    /\ outcome \in TransferOutcomes
    /\ calls' = [calls EXCEPT ![c] =
         IF outcome = "throw"
         THEN [Settle(c, "TransportError") EXCEPT !.failed = "throw"]
         ELSE [Suspend(c, "devClose", DeviceRequest("close", 0)) EXCEPT !.status = outcome]]
    /\ UNCHANGED <<portVars, deviceVars, streamVars>>
    /\ UNCHANGED adapterVars

\* The device.close() of close() completes: the device is closed and its
\* interfaces are released.
CloseDeviceDone(c) ==
    /\ calls[c].op = "close" /\ calls[c].pc = "devClose"
    /\ opened' = FALSE
    /\ claimed' = {}
    /\ calls' = [calls EXCEPT ![c] = Settle(c, "ok")]
    /\ UNCHANGED <<portVars, configured, streamVars>>
    /\ UNCHANGED adapterVars

(***************************************************************************)
(* The caller takes the result of a settled call.                          *)
(***************************************************************************)
Return(c) ==
    /\ calls[c].pc = "done"
    /\ calls' = [calls EXCEPT ![c] = IdleCall]
    /\ UNCHANGED <<portVars, deviceVars, streamVars>>
    /\ UNCHANGED adapterVars

\* The steps of the port's method calls, for call slot c.
OpenStep(c, inputs) ==
    \/ \E options \in inputs : CallOpen(c, options)
    \/ \E outcome \in {"ok", "throw"} : OpenDeviceDone(c, outcome)
    \/ \E outcome \in {"ok", "throw"} : SelectConfigurationDone(c, outcome)
    \/ \E outcome \in {"ok", "throw"} : ClaimControlDone(c, outcome)
    \/ \E outcome \in {"ok", "throw"} : ClaimTransferDone(c, outcome)
    \/ \E outcome \in {"ok", "status", "throw"} : OpenLineCodingDone(c, outcome)
    \/ \E outcome \in {"ok", "status", "throw"} : OpenControlLineDone(c, outcome)
    \/ OpenCleanupDone(c)

CloseStep(c) ==
    \/ \E lockedR \in BOOLEAN, lockedW \in BOOLEAN : CallClose(c, lockedR, lockedW)
    \/ CloseTeardownDone(c)
    \/ \E outcome \in {"ok", "status", "throw"} : CloseControlLineDone(c, outcome)
    \/ CloseDeviceDone(c)

ReconfigureStep(c, inputs) ==
    \/ \E options \in inputs : CallReconfigure(c, options)
    \/ \E outcome \in {"ok", "status", "throw"} : ReconfigureLineCodingDone(c, outcome)

SetSignalsStep(c, inputs) ==
    \/ \E signals \in inputs : CallSetSignals(c, signals)
    \/ \E outcome \in {"ok", "status", "throw"} : SetSignalsControlLineDone(c, outcome)
    \/ \E outcome \in {"ok", "status", "throw"} : SetSignalsBreakDone(c, outcome)

\* The steps of the accessors, the streams and their consumers and producers.
StreamStep ==
    \/ GetReadable
    \/ GetWritable
    \/ \E s \in StreamIds : Pull(s)
    \/ \E s \in StreamIds, outcome \in {"ok", "status", "throw"} : TransferInDone(s, outcome)
    \/ \E w \in StreamIds : Write(w)
    \/ \E w \in StreamIds, outcome \in {"ok", "status", "throw"} : TransferOutDone(w, outcome)

\* A device with two interfaces and no configuration selected.
TwoInterfaceInit ==
    Init /\ transferInterface_ = 1 /\ configured = FALSE /\ inPacketSize = 64

(***************************************************************************)
(* Spec: open(), reconfigure() and close(), any MaxCalls of them in        *)
(* progress at once, on a device whose operations may each fail.           *)
(***************************************************************************)
Next ==
    \/ \E c \in Calls : OpenStep(c, OptionInputs)
    \/ \E c \in Calls : ReconfigureStep(c, OptionInputs)
    \/ \E c \in Calls : CloseStep(c)
    \/ \E c \in Calls : Return(c)

Spec == TwoInterfaceInit /\ [][Next]_vars

(***************************************************************************)
(* StreamSpec: open() and close(), one call at a time, with the accessors, *)
(* the streams they construct and the bulk transfers of the adapters.      *)
(***************************************************************************)
StreamOptions == {ValidOptions}

StreamNext ==
    \/ OpenStep(1, StreamOptions)
    \/ CloseStep(1)
    \/ Return(1)
    \/ StreamStep

StreamSpec == TwoInterfaceInit /\ [][StreamNext]_vars

(***************************************************************************)
(* Properties.                                                             *)
(***************************************************************************)
\* Call c settles in this step.
Settles(c) == calls[c].pc # "done" /\ calls'[c].pc = "done"

\* A step of open() after validation failed: an operation rejected, or a
\* control transfer completed with a non-success status.
OpenStepFailed(call) ==
    \/ call.failed \notin {"none", "validation"}
    \/ call.status = "status"

\* C1: if a step of open() after validation fails, then when open() settles
\* the device is not open, no interface is claimed and the caller gets the
\* wrapped setup error.
C1_FailedOpenLeavesNothingOpen ==
    [][\A c \in Calls :
         (Settles(c) /\ calls'[c].op = "open" /\ OpenStepFailed(calls'[c]))
         => (calls'[c].result = "SetupError" /\ ~opened' /\ claimed' = {})]_vars

\* C1, for the failures open() gets to see (a rejected operation, or a
\* non-success status of Set_Line_Coding): the device is closed, nothing is
\* claimed and the wrapped error is thrown.
C1_RaisedFailureIsCleanedUp ==
    [][\A c \in Calls :
         (Settles(c) /\ calls'[c].op = "open"
            /\ calls'[c].failed \notin {"none", "validation"})
         => (calls'[c].result = "SetupError" /\ ~opened' /\ claimed' = {})]_vars

\* An open() that settled although its DTR transfer reported a failure.
C1_DtrStatusIgnored ==
    \E c \in Calls : /\ calls[c].op = "open" /\ calls[c].pc = "done"
                     /\ calls[c].status = "status" /\ calls[c].result = "ok"
                     /\ opened

\* The options the serial API does not accept.
InvalidOptions(o) ==
    \/ o.baudRate.t # "num"
    \/ o.dataBits.t = "half"
    \/ (o.dataBits.t = "num" /\ o.dataBits.v \notin {5, 6, 7, 8, 16})
    \/ o.stopBits.t = "half"
    \/ (o.stopBits.t = "num" /\ o.stopBits.v \notin {1, 2})
    \/ o.parity \notin {"undefined", "none", "even", "odd"}

\* C2: open(options) or reconfigure(options) with an invalid option fails with
\* a validation error in the step of the call, which issues no device
\* operation: the call is suspended on no request, and the device, the other
\* calls and the transfers in flight are as they were.
C2_InvalidOptionsNeverReachDevice ==
    [][\A c \in Calls :
         (calls[c].op = "idle" /\ calls'[c].op \in {"open", "reconfigure"}
            /\ InvalidOptions(serialOptions_'))
         => /\ calls'[c].pc = "done"
            /\ calls'[c].result = "RangeError"
            /\ calls'[c].request = NoRequest
            /\ \A d \in Calls \ {c} : calls'[d] = calls[d]
            /\ UNCHANGED <<opened, configured, claimed, rPending, wPending>>]_vars

\* An open() and a reconfigure() both rejected by validation, the device open.
C2_Witness ==
    \E c \in Calls, d \in Calls :
        /\ calls[c].op = "open" /\ calls[c].result = "RangeError"
        /\ calls[d].op = "reconfigure" /\ calls[d].result = "RangeError"
        /\ opened

\* C3: close() on an open device issues Set_Control_Line_State with value 0
\* only once the cancel of the cached readable and the abort of the cached
\* writable have settled, and releases the device only after that transfer
\* has completed.
C3_CloseOrder ==
    [][\A c \in Calls : calls'[c].op = "close" =>
         /\ (calls'[c].pc = "controlLine" /\ calls[c].pc # "controlLine") =>
              /\ calls[c].pc = "teardown"
              /\ calls[c].cancelOf # Null => rState[calls[c].cancelOf] # "readable"
              /\ calls[c].abortOf # Null =>
                   /\ wState[calls[c].abortOf] = "errored"
                   /\ wPending[calls[c].abortOf] = 0
              /\ calls'[c].request =
                   ControlTransferOut(kSetControlLineState, 0, controlInterface_, <<>>)
         /\ (calls'[c].pc = "devClose" /\ calls[c].pc # "devClose") =>
              /\ calls[c].pc = "controlLine"
              /\ calls[c].request.request = kSetControlLineState
              /\ calls[c].request.value = 0
         /\ (opened /\ ~opened') => calls[c].pc = "devClose"]_vars

\* A close() that cancelled a readable and aborted a writable that had a write
\* in flight, and is now releasing the device.
C3_Witness ==
    \E c \in Calls :
        /\ calls[c].op = "close" /\ calls[c].pc = "devClose"
        /\ calls[c].cancelOf # Null /\ calls[c].abortOf # Null
        /\ wState[calls[c].abortOf] = "errored"

\* No open() is in progress.
NoOpenInProgress == \A d \in Calls : ~(calls[d].op = "open" /\ calls[d].pc # "done")

\* C4: once a close() call has settled the port is Closed: the device is not
\* open and neither stream is cached.
C4_SettledCloseIsClosed ==
    \A c \in Calls :
        (calls[c].op = "close" /\ calls[c].pc = "done" /\ NoOpenInProgress)
        => (~opened /\ readable_ = Null /\ writable_ = Null)

\* C5: when close() releases the device, no bulk transfer of a source or a
\* sink of the port is in flight.
C5_NoTransferInFlightAtRelease ==
    \A c \in Calls :
        (calls[c].op = "close" /\ calls[c].pc = "devClose")
        => \A s \in StreamIds : rPending[s] = 0 /\ wPending[s] = 0

\* C6: whenever the device is not open, both accessors return none.
C6_NoStreamWhileNotOpen ==
    ~opened => (ReadableValue = Null /\ WritableValue = Null)

\* C7: after a close() has completed and while the port is not being opened
\* again, neither accessor returns a stream.
C7_NoStreamAfterClose ==
    \A c \in Calls :
        (calls[c].op = "close" /\ calls[c].pc = "done" /\ calls[c].result = "ok"
           /\ NoOpenInProgress)
        => (ReadableValue = Null /\ WritableValue = Null)

\* C8: open() constructs no stream; a getter returns the cached stream while
\* the device is open; and a cached stream is only ever replaced by none, by
\* an error callback of its direction or by close().
C8_LazyAndCached ==
    [][/\ (readable_ # Null /\ opened) => ReadableValue = readable_
       /\ (writable_ # Null /\ opened) => WritableValue = writable_
       /\ (\E c \in Calls : calls'[c].op = "open" /\ calls'[c] # calls[c])
            => UNCHANGED <<readable_, writable_, rState, wState>>
       /\ (readable_ # Null /\ readable_' # readable_) =>
            /\ readable_' = Null
            /\ \/ \E s \in StreamIds : rPending'[s] < rPending[s]
               \/ \E c \in Calls : calls[c].op = "close" /\ calls[c].pc = "teardown"
                                   /\ calls'[c].pc # "teardown"
       /\ (writable_ # Null /\ writable_' # writable_) =>
            /\ writable_' = Null
            /\ \/ \E w \in StreamIds : wPending[w] > 0 /\ wState'[w] = "errored"
               \/ \E c \in Calls : calls[c].op = "close" /\ calls[c].pc = "teardown"
                                   /\ calls'[c].pc # "teardown"]_vars

\* Both streams cached on an open port, each the first of its direction, and
\* a transfer of each in flight.
C8_Witness ==
    /\ opened /\ readable_ = 1 /\ writable_ = 1
    /\ StreamsConstructed = 2
    /\ rPending[1] > 0 /\ wPending[1] > 0

\* C9: a transfer failure of a readable stream clears the cached readable and
\* leaves the cached writable, the device, the remembered signals and the
\* options as they were; and the same with the directions exchanged.
C9_FailureIsScopedToItsDirection ==
    [][/\ \A s \in StreamIds :
            (rState[s] = "readable" /\ rState'[s] = "errored") =>
               /\ readable_' = Null
               /\ UNCHANGED <<writable_, opened, configured, claimed, outputSignals_,
                              serialOptions_, wState, wPending, wQueued>>
       /\ \A w \in StreamIds :
            (wState[w] = "writable" /\ wPending[w] > 0 /\ wState'[w] = "errored") =>
               /\ writable_' = Null
               /\ UNCHANGED <<readable_, opened, configured, claimed, outputSignals_,
                              serialOptions_, rState, rPending>>]_vars

\* A read failed on an open port whose writable is cached and usable.
C9_Witness ==
    /\ opened /\ readable_ = Null
    /\ \E s \in StreamIds : rState[s] = "errored"
    /\ writable_ # Null /\ wState[writable_] = "writable" /\ wPending[writable_] > 0

\* C10: after the error callback of a direction has run and while the device
\* is open, the stream it errored is not the cached one, and the getter of
\* that direction constructs a stream that was never constructed before.
C10_ErroredStreamIsReplaced ==
    /\ (opened /\ readable_ # Null) => rState[readable_] # "errored"
    /\ (readable_ = Null /\ opened /\ (\E s \in StreamIds : rState[s] = "errored")
          /\ StreamsConstructed < MaxStreams)
       => (ReadableValue # Null /\ rState[ReadableValue] = "none")
    /\ (writable_ = Null /\ opened /\ (\E w \in StreamIds : wState[w] = "errored")
          /\ StreamsConstructed < MaxStreams)
       => (WritableValue # Null /\ wState[WritableValue] = "none")

\* The replacement of an errored readable is cached and in use.
C10_Witness ==
    /\ opened /\ rState[1] = "errored" /\ readable_ = 2 /\ rState[2] = "readable"
    /\ rPending[2] > 0

(***************************************************************************)
(* PullSpec and ReadSpec: open() and close(), one call at a time, the      *)
(* readable accessor and the read source.  PullSpec records the transferIn *)
(* each pull() issues, for any packet size of the endpoint and desired     *)
(* size of the consumer; ReadSpec records what the rest of pull() does,    *)
(* for any result of the device.                                           *)
(***************************************************************************)
\* The values of controller.desiredSize when the stream calls pull(): the
\* high-water mark less the bytes queued, 0 when nothing more is desired.
DesiredSizes == {0, 1, 64, 100, 255}

\* result.data of a transferIn: absent, an empty view, or bytes.
DataInputs == {"none", "empty", "bytes"}

PullInit == Init /\ transferInterface_ = 1 /\ configured = FALSE

PullNext ==
    \/ OpenStep(1, StreamOptions)
    \/ CloseStep(1)
    \/ Return(1)
    \/ GetReadable
    \/ \E s \in StreamIds, desiredSize \in DesiredSizes : ObservedPull(s, desiredSize)
    \/ \E s \in StreamIds, outcome \in {"ok", "status", "throw"} : TransferInDone(s, outcome)

PullSpec == PullInit /\ [][PullNext]_vars

ReadNext ==
    \/ OpenStep(1, StreamOptions)
    \/ CloseStep(1)
    \/ Return(1)
    \/ GetReadable
    \/ \E s \in StreamIds : Pull(s)
    \/ \E s \in StreamIds, outcome \in {"ok", "status", "throw"}, data \in DataInputs :
         ObservedTransferInDone(s, outcome, data)

ReadSpec == TwoInterfaceInit /\ [][ReadNext]_vars

\* C11: the transferIn a pull issues asks for the desired size rounded up to
\* the next multiple of the packet size (the least multiple that is not less
\* than it), and for exactly one packet when no size is desired; desired 100
\* with packet size 64 asks for 128.
C11_ChunkSizing ==
    [][\A s \in StreamIds : rPending'[s] > rPending[s] =>
         /\ adapterEvent'.kind = "transferIn"
         /\ adapterEvent'.desiredSize > 0 =>
              /\ adapterEvent'.length % inPacketSize = 0
              /\ adapterEvent'.length >= adapterEvent'.desiredSize
              /\ adapterEvent'.length - adapterEvent'.desiredSize < inPacketSize
         /\ adapterEvent'.desiredSize = 0 => adapterEvent'.length = inPacketSize
         /\ (adapterEvent'.desiredSize = 100 /\ inPacketSize = 64)
              => adapterEvent'.length = 128]_vars

\* A pull with desired size 100 on an endpoint of packet size 64 has asked for
\* 128 bytes, and its transfer is in flight.
C11_Witness ==
    /\ adapterEvent.kind = "transferIn" /\ adapterEvent.desiredSize = 100
    /\ inPacketSize = 64 /\ adapterEvent.length = 128
    /\ \E s \in StreamIds : rPending[s] > 0

\* C12: when a transferIn of a source completes with a non-success status or
\* rejects, the rest of pull() errors the stream if it is still readable, runs
\* the callback that clears the port's cached readable, and enqueues nothing.
C12_FailedReadDeliversNothing ==
    [][\A s \in StreamIds :
         (rPending'[s] < rPending[s] /\ adapterEvent'.outcome \in {"status", "throw"})
         => /\ adapterEvent'.kind = "pullResumed"
            /\ adapterEvent'.enqueued = 0
            /\ adapterEvent'.errors >= 1
            /\ adapterEvent'.onErrors >= 1
            /\ rState[s] = "readable" => rState'[s] = "errored"
            /\ rState'[s] # "readable"
            /\ readable_' = Null]_vars

\* A transferIn completed with a non-success status and a result that carried
\* bytes: the stream is errored, the cached readable is cleared on the open
\* port, and nothing was enqueued.
C12_Witness ==
    /\ adapterEvent.kind = "pullResumed" /\ adapterEvent.outcome = "status"
    /\ adapterEvent.data = "bytes" /\ adapterEvent.enqueued = 0
    /\ opened /\ readable_ = Null
    /\ \E s \in StreamIds : rState[s] = "errored"

(***************************************************************************)
(* SinkSpec: open() and close(), one call at a time, the writable accessor *)
(* and the write sink, whose transfers are recorded, for any chunk the     *)
(* producer writes and any result of the device.                           *)
(***************************************************************************)
\* The chunks a producer writes: a Uint8Array ("bytes"), an object that is
\* not a byte sequence but has a byteLength, and a string.
ChunkInputs == {"bytes", "object", "string"}

SinkNext ==
    \/ OpenStep(1, StreamOptions)
    \/ CloseStep(1)
    \/ Return(1)
    \/ GetWritable
    \/ \E w \in StreamIds, chunk \in ChunkInputs : ObservedWrite(w, chunk)
    \/ \E w \in StreamIds, outcome \in {"ok", "status", "throw"} :
         ObservedTransferOutDone(w, outcome)

SinkSpec == TwoInterfaceInit /\ [][SinkNext]_vars

\* C13: the sink issues exactly one transferOut for each chunk the stream
\* hands it (at once when no write is in flight, else when the writes before
\* it have completed); and when a transferOut completes with a non-success
\* status or rejects, the stream is errored, so that the producer sees the
\* failure, and the callback that clears the port's cached writable has run.
C13_OneTransferPerChunk ==
    [][\A w \in StreamIds :
         /\ (wPending[w] = 0 /\ wPending'[w] > 0) =>
              /\ adapterEvent'.kind = "write"
              /\ adapterEvent'.transfers = <<adapterEvent'.data>>
              /\ wPending'[w] = 1
         /\ (Len(wQueued'[w]) < Len(wQueued[w]) /\ wState'[w] = "writable") =>
              /\ adapterEvent'.kind = "writeResumed" /\ adapterEvent'.outcome = "ok"
              /\ adapterEvent'.transfers = <<Head(wQueued[w])>>
              /\ wPending'[w] = 1
         /\ Len(wQueued'[w]) > Len(wQueued[w]) =>
              /\ adapterEvent'.transfers = <<>>
              /\ wPending'[w] = wPending[w]
         /\ (wPending'[w] < wPending[w] /\ adapterEvent'.outcome \in {"status", "throw"}) =>
              /\ adapterEvent'.kind = "writeResumed"
              /\ adapterEvent'.transfers = <<>>
              /\ wState'[w] = "errored"
              /\ writable_' = Null]_vars

\* A chunk waited behind a write in flight and was handed to the sink when that
\* write completed; then its transfer failed, the stream is errored and the
\* cached writable is cleared on the open port.
C13_Witness ==
    /\ adapterEvent.kind = "writeResumed" /\ adapterEvent.outcome = "status"
    /\ opened /\ writable_ = Null
    /\ \E w \in StreamIds : wState[w] = "errored" /\ wPending[w] = 0

\* C14: a chunk that is not a byte sequence is refused when it is written
\* (the stream does not stay writable), and no transferOut is issued for it, at
\* once or later.
C14_NonByteChunkIsRefused ==
    [][\A w \in StreamIds :
         (/\ adapterEvent'.data \notin {"none", "bytes"}
          /\ calls' = calls
          /\ wState[w] = "writable"
          /\ <<wState[w], wPending[w], wQueued[w]>>' # <<wState[w], wPending[w], wQueued[w]>>)
         => /\ adapterEvent'.transfers = <<>>
            /\ wPending'[w] = wPending[w]
            /\ wState'[w] # "writable"]_vars

\* A string never gets to the sink: the stream's queuing strategy refuses it.
C14_StringIsRefused ==
    [][\A w \in StreamIds :
         (/\ adapterEvent'.data = "string"
          /\ calls' = calls
          /\ wState[w] = "writable"
          /\ <<wState[w], wPending[w], wQueued[w]>>' # <<wState[w], wPending[w], wQueued[w]>>)
         => /\ adapterEvent'.transfers = <<>>
            /\ wPending'[w] = wPending[w]
            /\ wState'[w] # "writable"]_vars

\* The sink has issued a transferOut for a chunk that is not a byte sequence.
C14_NonByteTransfer ==
    /\ adapterEvent.transfers = <<"object">>
    /\ \E w \in StreamIds : wPending[w] = 1

\* C15: at most one transferOut issued by the port's sinks is in flight, over
\* all the writable streams the accessor has constructed.
C15_OneWriteInFlight ==
    /\ \A w \in StreamIds : wPending[w] <= 1
    /\ Cardinality({w \in StreamIds : wPending[w] > 0}) <= 1

(***************************************************************************)
(* SignalSpec: setSignals() calls, and open() and close() one at a time,   *)
(* any MaxCalls calls in progress at once.                                 *)
(***************************************************************************)
SignalNext ==
    \/ OpenStep(1, StreamOptions)
    \/ CloseStep(1)
    \/ \E c \in Calls : SetSignalsStep(c, SignalInputs)
    \/ \E c \in Calls : Return(c)

SignalSpec == TwoInterfaceInit /\ [][SignalNext]_vars

\* Call c enters setSignals in this step: the caller calls it, or open() or
\* close() does.
EntersSetSignals(c) ==
    \/ calls[c].op = "idle" /\ calls'[c].op = "setSignals"
    \/ calls'[c].signals # calls[c].signals

\* Call c issues a control transfer with this request code in this step.
Issues(c, request) ==
    /\ calls'[c].request.kind = "controlTransferOut"
    /\ calls'[c].request.request = request
    /\ calls'[c].pc # calls[c].pc

\* C16: setSignals(partial) issues Set_Control_Line_State (0x22), to the
\* control interface, exactly when partial gives dataTerminalReady or
\* requestToSend, and at no other time; its value has bit 0 set iff DTR is
\* remembered true and bit 1 set iff RTS is, the remembered state being the
\* fields given and, for a field not given, the value remembered before.
C16_ControlLineBitmap ==
    [][\A c \in Calls :
         /\ Issues(c, kSetControlLineState) => EntersSetSignals(c)
         /\ EntersSetSignals(c) =>
              LET partial == calls'[c].signals
                  value == calls'[c].request.value
              IN  /\ Issues(c, kSetControlLineState)
                     <=> (partial.dataTerminalReady # "undefined"
                            \/ partial.requestToSend # "undefined")
                  /\ Issues(c, kSetControlLineState) =>
                       /\ kSetControlLineState = 34
                       /\ calls'[c].request.index = controlInterface_
                       /\ value \in 0..3
                       /\ (value % 2 = 1) <=> (outputSignals_'.dataTerminalReady = "true")
                       /\ (value \div 2 = 1) <=> (outputSignals_'.requestToSend = "true")
                       /\ outputSignals_'.dataTerminalReady =
                            IF partial.dataTerminalReady = "undefined"
                            THEN outputSignals_.dataTerminalReady
                            ELSE partial.dataTerminalReady
                       /\ outputSignals_'.requestToSend =
                            IF partial.requestToSend = "undefined"
                            THEN outputSignals_.requestToSend
                            ELSE partial.requestToSend]_vars

\* setSignals({requestToSend: true}) on a port that remembers DTR true has
\* issued Set_Control_Line_State with value 0x03.
C16_Witness ==
    \E c \in Calls :
        /\ calls[c].op = "setSignals" /\ calls[c].pc = "controlLine"
        /\ calls[c].signals.dataTerminalReady = "undefined"
        /\ calls[c].signals.requestToSend = "true"
        /\ calls[c].request.value = 3
        /\ opened

\* C17: setSignals(partial) issues Send_Break (0x23) exactly when partial gives
\* break, with value 0xFFFF if break is remembered true and 0 if not; a call
\* that gives DTR or RTS too issues it after its Set_Control_Line_State
\* transfer has completed, and not at all if that transfer failed.
C17_SendBreak ==
    [][\A c \in Calls :
         /\ Issues(c, kSendBreak) =>
              /\ kSendBreak = 35
              /\ calls'[c].signals.break # "undefined"
              /\ calls'[c].request.value =
                   IF outputSignals_'.break = "true" THEN 65535 ELSE 0
              /\ \/ /\ EntersSetSignals(c)
                    /\ calls'[c].signals.dataTerminalReady = "undefined"
                    /\ calls'[c].signals.requestToSend = "undefined"
                 \/ /\ calls[c].pc = "controlLine"
                    /\ calls[c].request.request = kSetControlLineState
                    /\ calls'[c].status = "ok"
         /\ (Settles(c) /\ calls'[c].result = "ok" /\ calls'[c].signals.break # "undefined")
              => calls[c].pc = "sendBreak"]_vars

\* C17 for a first transfer that fails by rejecting: the same, without the
\* condition on the status the first transfer completed with.
C17_SendBreakUnlessRejected ==
    [][\A c \in Calls :
         /\ Issues(c, kSendBreak) =>
              /\ calls'[c].signals.break # "undefined"
              /\ calls'[c].request.value =
                   IF outputSignals_'.break = "true" THEN 65535 ELSE 0
              /\ \/ /\ EntersSetSignals(c)
                    /\ calls'[c].signals.dataTerminalReady = "undefined"
                    /\ calls'[c].signals.requestToSend = "undefined"
                 \/ /\ calls[c].pc = "controlLine"
                    /\ calls[c].request.request = kSetControlLineState
                    /\ calls'[c].failed = "none"
         /\ (Settles(c) /\ calls'[c].result = "ok" /\ calls'[c].signals.break # "undefined")
              => calls[c].pc = "sendBreak"]_vars

\* A setSignals call issued Send_Break although its Set_Control_Line_State
\* transfer had completed with a non-success status.
C17_BreakAfterFailedStatus ==
    \E c \in Calls :
        /\ calls[c].op = "setSignals" /\ calls[c].pc = "sendBreak"
        /\ calls[c].status = "status"

\* C18: the step that enters setSignals sets the remembered signals to the
\* merge of the old ones and the fields given, before its transfer completes;
\* no other step changes them, so they stay merged when the transfer fails.
C18_SignalsMergedEagerly ==
    [][/\ \A c \in Calls : EntersSetSignals(c) =>
            \A f \in {"dataTerminalReady", "requestToSend", "break"} :
               outputSignals_'[f] = IF calls'[c].signals[f] = "undefined"
                                    THEN outputSignals_[f]
                                    ELSE calls'[c].signals[f]
       /\ (\A c \in Calls : ~EntersSetSignals(c)) => outputSignals_' = outputSignals_
       /\ \A c \in Calls :
            (Settles(c) /\ calls'[c].failed = "throw") => outputSignals_' = outputSignals_]_vars

\* setSignals({requestToSend: true}) failed on a device that is not open, and
\* RTS is remembered true.
C18_Witness ==
    \E c \in Calls :
        /\ calls[c].op = "setSignals" /\ calls[c].pc = "done"
        /\ calls[c].failed = "throw"
        /\ calls[c].signals.requestToSend = "true"
        /\ outputSignals_.requestToSend = "true"
        /\ ~opened

(***************************************************************************)
(* OpenSpec: open(), reconfigure() and close() one at a time, with         *)
(* setSignals({requestToSend: true, break: true}) calls at any time, on a  *)
(* device with one interface or two, with or without a configuration       *)
(* selected.                                                               *)
(***************************************************************************)
OpenInit == Init /\ inPacketSize = 64

\* The options of OptionInputs, and valid ones with every parity, baud rates
\* of one, two, three and four bytes, and fields left out.
CodingInputs ==
    OptionInputs \cup
    { [baudRate |-> Num(110), dataBits |-> Num(7), stopBits |-> Undef, parity |-> "odd"],
      [baudRate |-> Num(1000000), dataBits |-> Num(5), stopBits |-> Num(2), parity |-> "even"],
      [baudRate |-> Num(19088743), dataBits |-> Num(16), stopBits |-> Num(1),
       parity |-> "undefined"] }

OpenNext ==
    \/ OpenStep(1, CodingInputs)
    \/ ReconfigureStep(1, CodingInputs)
    \/ \E c \in Calls : SetSignalsStep(c, {[NoSignals EXCEPT !.requestToSend = "true", !.break = "true"]})
    \/ CloseStep(1)
    \/ \E c \in Calls : Return(c)

OpenSpec == OpenInit /\ [][OpenNext]_vars

\* Call c, an open(), moves on in this step.
OpenMoves(c) ==
    /\ calls'[c].op = "open"
    /\ calls'[c].pc # calls[c].pc

\* The order of the device operations of open(), but for the condition on
\* device.open(): each operation is issued by the step in which the one
\* before it completed, with its effect on the device in place.
OpenOrder(c) ==
    /\ calls'[c].pc = "devOpen" =>
         /\ calls[c].op = "idle"
         /\ calls'[c].request = DeviceRequest("open", 0)
    /\ calls'[c].pc = "selectConfiguration" =>
         /\ calls[c].pc = "devOpen" /\ opened'
         /\ ~configured
         /\ calls'[c].request = DeviceRequest("selectConfiguration", 1)
    /\ calls'[c].pc = "claimControl" =>
         /\ \/ calls[c].pc = "selectConfiguration" /\ configured'
            \/ calls[c].pc = "devOpen" /\ opened' /\ configured
         /\ calls'[c].request = DeviceRequest("claimInterface", controlInterface_)
    /\ calls'[c].pc = "claimTransfer" =>
         /\ calls[c].pc = "claimControl" /\ controlInterface_ \in claimed'
         /\ transferInterface_ # controlInterface_
         /\ calls'[c].request = DeviceRequest("claimInterface", transferInterface_)
    /\ calls'[c].pc = "lineCoding" =>
         /\ \/ calls[c].pc = "claimTransfer" /\ transferInterface_ \in claimed'
            \/ /\ calls[c].pc = "claimControl" /\ controlInterface_ \in claimed'
               /\ transferInterface_ = controlInterface_
         /\ calls'[c].request.kind = "controlTransferOut"
         /\ calls'[c].request.request = 32
         /\ calls'[c].request.index = controlInterface_
    /\ calls'[c].pc = "controlLine" =>
         /\ calls[c].pc = "lineCoding"
         /\ calls'[c].request.kind = "controlTransferOut"
         /\ calls'[c].request.request = 34
         /\ calls'[c].request.value % 2 = 1
    /\ (calls'[c].pc = "done" /\ calls'[c].result = "ok") =>
         calls[c].pc = "controlLine"

\* C19: a successful open() opens the device only if it is not open already,
\* selects configuration 1 only if none is selected, claims the control
\* interface, claims the transfer interface only if it is another one, sends
\* Set_Line_Coding (0x20) to the control interface, then
\* Set_Control_Line_State with DTR set; each starts after the one before it
\* has completed.
C19_OpenSequence ==
    [][\A c \in Calls : OpenMoves(c) =>
         /\ OpenOrder(c)
         /\ calls'[c].pc = "devOpen" => ~opened]_vars

\* C19 but for its condition on opening the device: the order of the
\* operations of open().
C19_OpenOrderAfterDeviceOpen ==
    [][\A c \in Calls : OpenMoves(c) => OpenOrder(c)]_vars

\* open() has issued device.open() on a device that is open.
C19_OpenIssuedOnOpenDevice ==
    \E c \in Calls :
        /\ calls[c].op = "open" /\ calls[c].pc = "devOpen"
        /\ opened

\* An open() succeeded on a device with one interface for control and
\* transfers, claimed once.
C19_OneInterfaceOpened ==
    \E c \in Calls :
        /\ calls[c].op = "open" /\ calls[c].pc = "done" /\ calls[c].result = "ok"
        /\ transferInterface_ = controlInterface_
        /\ claimed = {controlInterface_}

\* The payload the claim describes for valid options, from its tables.
ExpectedLineCoding(o) ==
    LET baud == o.baudRate.v
        stopBits == IF o.stopBits.t = "undefined" THEN 1 ELSE o.stopBits.v
        parity == IF o.parity = "undefined" THEN "none" ELSE o.parity
        dataBits == IF o.dataBits.t = "undefined" THEN 8 ELSE o.dataBits.v
    IN  << baud % 256, (baud \div 256) % 256, (baud \div 65536) % 256,
           baud \div 16777216,
           CASE stopBits = 1 -> 0 [] stopBits = 2 -> 2,
           CASE parity = "none" -> 0 [] parity = "odd" -> 1 [] parity = "even" -> 2,
           dataBits >>

C20_FourByteBaudRate ==
    \E c \in Calls :
        /\ calls[c].request.request = kSetLineCoding
        /\ calls[c].request.data = <<103, 69, 35, 1, 0, 0, 16>>

(***************************************************************************)
(* The legacy generation (serial.ts): its accepted parities and its        *)
(* validation, which has no case for a field left out (the constructor     *)
(* and setOptions merge the defaults in).                                  *)
(***************************************************************************)
kLegacyAcceptableParity == {"none", "even", "mark", "odd", "space"}

legacyIsValidBaudRate(baudrate) == baudrate.t = "num"
legacyIsValidDataBits(databits) == databits.t = "num" /\ databits.v \in kAcceptableDataBits
legacyIsValidStopBits(stopbits) == stopbits.t = "num" /\ stopbits.v \in kAcceptableStopBits
legacyIsValidParity(parity) == parity \in kLegacyAcceptableParity

legacyValidateOptions(o) ==
    IF ~legacyIsValidBaudRate(o.baudRate) THEN "baudRate"
    ELSE IF ~legacyIsValidDataBits(o.dataBits) THEN "dataBits"
    ELSE IF ~legacyIsValidStopBits(o.stopBits) THEN "stopBits"
    ELSE IF ~legacyIsValidParity(o.parity) THEN "parity"
    ELSE "ok"

(***************************************************************************)
(* ValidationSpec: validateOptions of either generation applied once to   *)
(* options that are any combination of the values below.                   *)
(***************************************************************************)
BaudRateInputs == {Num(9600), Num(0), Half(9600), Half(0)}
DataBitsInputs == {Undef, Num(5), Num(6), Num(7), Num(8), Num(16), Num(4), Num(9), Half(7)}
StopBitsInputs == {Undef, Num(1), Num(2), Num(0), Num(3), Half(1)}
ParityInputs == {"undefined", "none", "even", "odd", "mark", "space", "both"}

ValidationInputs ==
    [baudRate : BaudRateInputs, dataBits : DataBitsInputs,
     stopBits : StopBitsInputs, parity : ParityInputs]

\* this.serialOptions_ = options; this.validateOptions(): the outcome of the
\* validation, observed.
ObservedValidateOptions(options) ==
    /\ adapterEvent = NoEvent
    /\ serialOptions_' = options
    /\ adapterEvent' = [NoEvent EXCEPT !.kind = "validateOptions",
                                       !.outcome = validateOptions(options)]
    /\ UNCHANGED <<readable_, writable_, outputSignals_, controlInterface_,
                   transferInterface_, deviceVars, streamVars, calls, inPacketSize>>

\* The same in the legacy generation, whose options have every field.
ObservedLegacyValidateOptions(options) ==
    /\ options.dataBits # Undef
    /\ options.stopBits # Undef
    /\ options.parity # "undefined"
    /\ adapterEvent = NoEvent
    /\ serialOptions_' = options
    /\ adapterEvent' = [NoEvent EXCEPT !.kind = "legacyValidateOptions",
                                       !.outcome = legacyValidateOptions(options)]
    /\ UNCHANGED <<readable_, writable_, outputSignals_, controlInterface_,
                   transferInterface_, deviceVars, streamVars, calls, inPacketSize>>

ValidationNext ==
    \/ \E options \in ValidationInputs : ObservedValidateOptions(options)
    \/ \E options \in ValidationInputs : ObservedLegacyValidateOptions(options)

ValidationSpec == TwoInterfaceInit /\ [][ValidationNext]_vars

\* The cases the claim lists, for a field that is given.
FractionalBaudRate(o) == o.baudRate.t = "half"
DataBitsOutside(o) == ~(o.dataBits.t = "num" /\ o.dataBits.v \in {5, 6, 7, 8, 16})
StopBitsOutside(o) == ~(o.stopBits.t = "num" /\ o.stopBits.v \in {1, 2})

\* The first of the claim's cases that applies, in the order baud rate, data
\* bits, stop bits, parity; a field left out is no case.
FirstRejectedField(o, parities) ==
    IF FractionalBaudRate(o) THEN "baudRate"
    ELSE IF o.dataBits # Undef /\ DataBitsOutside(o) THEN "dataBits"
    ELSE IF o.stopBits # Undef /\ StopBitsOutside(o) THEN "stopBits"
    ELSE IF o.parity # "undefined" /\ o.parity \notin parities THEN "parity"
    ELSE "ok"

\* C21: validation rejects exactly a fractional baud rate, dataBits outside
\* {5,6,7,8,16}, stopBits outside {1,2} and a parity outside the accepted set
\* ({none, even, odd}; {none, even, odd, mark, space} in the legacy
\* generation), and the error is that of the first field that fails in the
\* order baud rate, data bits, stop bits, parity.
C21_ValidationCases ==
    /\ adapterEvent.kind = "validateOptions" =>
         adapterEvent.outcome =
             FirstRejectedField(serialOptions_, {"none", "even", "odd"})
    /\ adapterEvent.kind = "legacyValidateOptions" =>
         adapterEvent.outcome =
             FirstRejectedField(serialOptions_, {"none", "even", "odd", "mark", "space"})

\* Options with stop bits and parity both outside their sets were rejected
\* for their stop bits, and parity mark was rejected by the newer generation.
C21_Witness ==
    /\ adapterEvent.kind = "validateOptions"
    /\ \/ /\ serialOptions_.stopBits = Num(3) /\ serialOptions_.parity = "both"
          /\ adapterEvent.outcome = "stopBits"
       \/ /\ serialOptions_.parity = "mark"
          /\ adapterEvent.outcome = "parity"

(***************************************************************************)
(* The legacy generation's Line Coding codec (serial.ts).  A number in     *)
(* 0..2^32-1 is held as its two 16-bit halves, 2^32 being beyond TLC's     *)
(* integers.                                                               *)
(***************************************************************************)
kLegacyParityIndexMapping == <<"none", "odd", "even", "mark", "space">>
kStopbitsIndexMapping == <<Num(1), Half(1), Num(2)>>

Uint32(hi, lo) == [t |-> "uint32", hi |-> hi, lo |-> lo]

\* DataView.setUint32(0, x, true)
setUint32(x) == << x.lo % 256, x.lo \div 256, x.hi % 256, x.hi \div 256 >>

\* The four bytes read most significant first.
getUint32BigEndian(b) == Uint32(b[2] + 256 * b[1], b[4] + 256 * b[3])

\* DataView.getUint32(0, true)
getUint32(b) == Uint32(b[3] + 256 * b[4], b[1] + 256 * b[2])

getLineCodingStructure(o) ==
    setUint32(o.baudRate) \o
    << ToUint8(IndexOf(kStopbitsIndexMapping, o.stopBits)),
       ToUint8(IndexOf(kLegacyParityIndexMapping, o.parity)),
       ToUint8(ToInteger(o.dataBits)) >>

\* A table read with no test of the index: undefined past the end.
stopbitsOfUnchecked(code) ==
    IF code < Len(kStopbitsIndexMapping) THEN kStopbitsIndexMapping[code + 1] ELSE Undef

\* view.getUint8(4) < kStopbitsIndexMapping.length ? kStopbitsIndexMapping[..] : 1
stopbitsOf(code) ==
    IF code < Len(kStopbitsIndexMapping) THEN kStopbitsIndexMapping[code + 1] ELSE Num(1)

\* view.getUint8(5) < kParityIndexMapping.length ? kParityIndexMapping[..] : 'none'
parityOf(code) ==
    IF code < Len(kLegacyParityIndexMapping) THEN kLegacyParityIndexMapping[code + 1]
    ELSE "none"

\* readLineCoding writes the four decoded fields into the port's options and
\* returns them.
readLineCoding(options, buffer) ==
    [options EXCEPT !.baudRate = getUint32(buffer),
                    !.stopBits = stopbitsOf(buffer[5]),
                    !.parity = parityOf(buffer[6]),
                    !.dataBits = Num(buffer[7])]

(***************************************************************************)
(* CodecSpec: the legacy port encodes options and decodes the bytes again, *)
(* or decodes the bytes a device answers Get_Line_Coding with.             *)
(***************************************************************************)
MaxByte == 255
MaxHalf == 65535

Uint32Inputs ==
    { Uint32(0, 0), Uint32(0, 9600), Uint32(1, 49664), Uint32(0, MaxHalf),
      Uint32(1, 0), Uint32(32768, 0), Uint32(4660, 22136), Uint32(MaxHalf, MaxHalf) }

LegacyOptionInputs ==
    [baudRate : Uint32Inputs,
     dataBits : {Num(0), Num(5), Num(8), Num(16), Num(MaxByte)},
     stopBits : {Num(1), Half(1), Num(2)},
     parity : {"none", "odd", "even", "mark", "space"}]

BufferInputs ==
    { setUint32(x) \o <<stop, parity, data>> :
        x \in {Uint32(0, 9600), Uint32(MaxHalf, MaxHalf)},
        stop \in {0, 1, 2, 3, 4, MaxByte},
        parity \in {0, 1, 2, 3, 4, 5, 6, MaxByte},
        data \in {0, 8, MaxByte} }

\* The port holds the options and builds their Line Coding structure.
ObservedGetLineCodingStructure(options) ==
    /\ adapterEvent = NoEvent
    /\ serialOptions_' = options
    /\ adapterEvent' = [NoEvent EXCEPT !.kind = "getLineCodingStructure",
                                       !.transfers = getLineCodingStructure(options)]
    /\ UNCHANGED <<readable_, writable_, outputSignals_, controlInterface_,
                   transferInterface_, deviceVars, streamVars, calls, inPacketSize>>

\* The structure built is read back.
ObservedReadBack ==
    /\ adapterEvent.kind = "getLineCodingStructure"
    /\ serialOptions_' = readLineCoding(serialOptions_, adapterEvent.transfers)
    /\ adapterEvent' = [adapterEvent EXCEPT !.kind = "readBack"]
    /\ UNCHANGED <<readable_, writable_, outputSignals_, controlInterface_,
                   transferInterface_, deviceVars, streamVars, calls, inPacketSize>>

\* getInfo(): the device answers with a buffer, which is decoded.
ObservedGetInfo(buffer) ==
    /\ adapterEvent = NoEvent
    /\ serialOptions_' = readLineCoding(serialOptions_, buffer)
    /\ adapterEvent' = [NoEvent EXCEPT !.kind = "readLineCoding", !.transfers = buffer]
    /\ UNCHANGED <<readable_, writable_, outputSignals_, controlInterface_,
                   transferInterface_, deviceVars, streamVars, calls, inPacketSize>>

CodecNext ==
    \/ \E options \in LegacyOptionInputs : ObservedGetLineCodingStructure(options)
    \/ ObservedReadBack
    \/ \E buffer \in BufferInputs : ObservedGetInfo(buffer)

CodecSpec == TwoInterfaceInit /\ [][CodecNext]_vars

\* C22: decoding the 7 bytes that encoding the options gives yields the same
\* baud rate, data bits, stop bits and parity, for baud rates in 0..2^32-1,
\* data bits in 0..255 and the stop bits and parities of the tables.
C22_RoundTrip ==
    [][adapterEvent'.kind = "readBack" =>
         /\ Len(adapterEvent.transfers) = 7
         /\ \A i \in 1..7 : adapterEvent.transfers[i] \in 0..MaxByte
         /\ serialOptions_'.baudRate = serialOptions_.baudRate
         /\ serialOptions_'.dataBits = serialOptions_.dataBits
         /\ serialOptions_'.stopBits = serialOptions_.stopBits
         /\ serialOptions_'.parity = serialOptions_.parity]_vars

\* Options of baud rate 2^32-1, 255 data bits, 1.5 stop bits and parity space
\* were encoded and read back.
C22_Witness ==
    /\ adapterEvent.kind = "readBack"
    /\ adapterEvent.transfers = <<255, 255, 255, 255, 1, 4, 255>>
    /\ serialOptions_ = [baudRate |-> Uint32(MaxHalf, MaxHalf), dataBits |-> Num(MaxByte),
                         stopBits |-> Half(1), parity |-> "space"]

\* C23: decoding never fails: a stop-bits byte of 3 or more decodes to 1 stop
\* bit and a parity byte of 5 or more to parity none, and the bytes of the
\* tables decode to 1, 1.5, 2 and to none, odd, even, mark, space.
C23_DecodeDefaults ==
    adapterEvent.kind = "readLineCoding" =>
        LET stop == adapterEvent.transfers[5]
            parity == adapterEvent.transfers[6]
        IN  /\ serialOptions_.stopBits =
                 CASE stop = 0 -> Num(1) [] stop = 1 -> Half(1) [] stop = 2 -> Num(2)
                   [] OTHER -> Num(1)
            /\ serialOptions_.parity =
                 CASE parity = 0 -> "none" [] parity = 1 -> "odd" [] parity = 2 -> "even"
                   [] parity = 3 -> "mark" [] parity = 4 -> "space"
                   [] OTHER -> "none"

\* A buffer with stop-bits byte 3 and parity byte 5 was decoded to 1 stop bit
\* and parity none.
C23_Witness ==
    /\ adapterEvent.kind = "readLineCoding"
    /\ adapterEvent.transfers[5] = 3 /\ adapterEvent.transfers[6] = 5
    /\ serialOptions_.stopBits = Num(1) /\ serialOptions_.parity = "none"

(***************************************************************************)
(* Interface discovery.  A device is the sequence of the interfaces of its *)
(* first configuration, an interface the sequence of its alternate         *)
(* settings, its interface number its place in the device less one.        *)
(***************************************************************************)
kDefaultUsbControlInterfaceClass == 2
kDefaultUsbTransferInterfaceClass == 10

NotFound == 0

Endpoint(number, direction) == [endpointNumber |-> number, direction |-> direction]
Alternate(class, endpoints) == [interfaceClass |-> class, endpoints |-> endpoints]

\* The loop of findInterface from interface i on.
RECURSIVE findInterfaceFrom(_, _, _)
findInterfaceFrom(device, classCode, i) ==
    IF i > Len(device) THEN NotFound
    ELSE IF device[i][1].interfaceClass = classCode THEN i
    ELSE findInterfaceFrom(device, classCode, i + 1)

\* findInterface that returns the last match.
findInterfaceLast(device, classCode) ==
    IF \E i \in 1..Len(device) : device[i][1].interfaceClass = classCode
    THEN CHOOSE i \in 1..Len(device) :
            /\ device[i][1].interfaceClass = classCode
            /\ \A j \in (i + 1)..Len(device) : device[j][1].interfaceClass # classCode
    ELSE NotFound

\* findInterface(device, classCode): the place of the interface returned, or
\* NotFound for the TypeError.
findInterface(device, classCode) == findInterfaceFrom(device, classCode, 1)

\* The loop of findEndpoint from endpoint i on.
RECURSIVE findEndpointFrom(_, _, _)
findEndpointFrom(endpoints, direction, i) ==
    IF i > Len(endpoints) THEN NotFound
    ELSE IF endpoints[i].direction = direction THEN i
    ELSE findEndpointFrom(endpoints, direction, i + 1)

\* findEndpoint(iface, direction): the place of the endpoint returned in the
\* first alternate setting, or NotFound for the TypeError.
findEndpoint(iface, direction) == findEndpointFrom(iface[1].endpoints, direction, 1)

\* new SerialPort(device, polyfillOptions): the fields the constructor
\* resolves, or the error it throws.
SerialPort(device, controlClass, transferClass) ==
    LET control == findInterface(device, controlClass)
        transfer == findInterface(device, transferClass)
        failure(error, what) ==
            [error |-> error, what |-> what, controlInterface_ |-> NotFound,
             transferInterface_ |-> NotFound, inEndpoint_ |-> NotFound,
             outEndpoint_ |-> NotFound]
    IN  IF control = NotFound THEN failure("InterfaceNotFound", controlClass)
        ELSE IF transfer = NotFound THEN failure("InterfaceNotFound", transferClass)
        ELSE IF findEndpoint(device[transfer], "in") = NotFound
             THEN failure("EndpointNotFound", "in")
        ELSE IF findEndpoint(device[transfer], "out") = NotFound
             THEN failure("EndpointNotFound", "out")
        ELSE [error |-> "none", what |-> "none",
              controlInterface_ |-> control, transferInterface_ |-> transfer,
              inEndpoint_ |-> findEndpoint(device[transfer], "in"),
              outEndpoint_ |-> findEndpoint(device[transfer], "out")]

\* The forEach of getPorts from device i on: a port for each device whose
\* construction does not throw.
RECURSIVE getPortsFrom(_, _)
getPortsFrom(devices, i) ==
    IF i > Len(devices) THEN <<>>
    ELSE LET port == SerialPort(devices[i], kDefaultUsbControlInterfaceClass,
                                kDefaultUsbTransferInterfaceClass)
         IN  IF port.error = "none"
             THEN <<[device |-> i, port |-> port]>> \o getPortsFrom(devices, i + 1)
             ELSE getPortsFrom(devices, i + 1)

getPorts(devices) == getPortsFrom(devices, 1)

(***************************************************************************)
(* DiscoverySpec: one lookup, one construction or one getPorts() over      *)
(* devices of up to MaxInterfaces interfaces of the shapes below.          *)
(***************************************************************************)
MaxInterfaces == 2
MaxDevices == 2

InterfaceShapes ==
    { <<Alternate(2, <<Endpoint(3, "in")>>)>>,
      <<Alternate(10, <<Endpoint(1, "in"), Endpoint(2, "out")>>)>>,
      <<Alternate(10, <<Endpoint(2, "out"), Endpoint(3, "in"), Endpoint(1, "in")>>)>>,
      <<Alternate(10, <<Endpoint(1, "in")>>)>>,
      <<Alternate(255, <<>>)>>,
      <<Alternate(255, <<>>), Alternate(2, <<Endpoint(3, "in")>>)>>,
      <<Alternate(10, <<>>), Alternate(10, <<Endpoint(1, "in"), Endpoint(2, "out")>>)>> }

DeviceInputs == UNION { [1..n -> InterfaceShapes] : n \in 0..MaxInterfaces }

\* The devices getPorts() is given lists of: a CDC device, one with no
\* class-2 interface, one with no class-10 interface, one whose class-10
\* interface has no out endpoint, and one whose class 2 is declared by a
\* second alternate setting.
PermittedDevices ==
    { d \in DeviceInputs :
        /\ Len(d) = 2
        /\ d[1] \in { <<Alternate(2, <<Endpoint(3, "in")>>)>>, <<Alternate(255, <<>>)>>,
                      <<Alternate(255, <<>>), Alternate(2, <<Endpoint(3, "in")>>)>> }
        /\ d[2] \in { <<Alternate(10, <<Endpoint(1, "in"), Endpoint(2, "out")>>)>>,
                      <<Alternate(10, <<Endpoint(1, "in")>>)>>,
                      <<Alternate(255, <<>>)>> }
        /\ (d[1] # <<Alternate(2, <<Endpoint(3, "in")>>)>>
              => d[2] = <<Alternate(10, <<Endpoint(1, "in"), Endpoint(2, "out")>>)>>) }

DeviceLists == UNION { [1..n -> PermittedDevices] : n \in 0..MaxDevices }

\* findInterface(device, classCode), its result observed.
ObservedFindInterface(device, classCode) ==
    /\ adapterEvent = NoEvent
    /\ adapterEvent' = [NoEvent EXCEPT !.kind = "findInterface",
                                       !.transfers = device,
                                       !.desiredSize = classCode,
                                       !.data = findInterface(device, classCode)]
    /\ UNCHANGED <<portVars, deviceVars, streamVars, calls, inPacketSize>>

\* findEndpoint(iface, direction), its result observed.
ObservedFindEndpoint(iface, direction) ==
    /\ adapterEvent = NoEvent
    /\ adapterEvent' = [NoEvent EXCEPT !.kind = "findEndpoint",
                                       !.transfers = iface,
                                       !.outcome = direction,
                                       !.data = findEndpoint(iface, direction)]
    /\ UNCHANGED <<portVars, deviceVars, streamVars, calls, inPacketSize>>

\* new SerialPort(device), its result observed.
ObservedConstruct(device) ==
    /\ adapterEvent = NoEvent
    /\ adapterEvent' = [NoEvent EXCEPT !.kind = "SerialPort",
                                       !.transfers = device,
                                       !.data = SerialPort(device,
                                                    kDefaultUsbControlInterfaceClass,
                                                    kDefaultUsbTransferInterfaceClass)]
    /\ UNCHANGED <<portVars, deviceVars, streamVars, calls, inPacketSize>>

\* getPorts() with navigator.usb.getDevices() answering `devices`, its result
\* observed.
ObservedGetPorts(devices) ==
    /\ adapterEvent = NoEvent
    /\ adapterEvent' = [NoEvent EXCEPT !.kind = "getPorts",
                                       !.transfers = devices,
                                       !.data = getPorts(devices)]
    /\ UNCHANGED <<portVars, deviceVars, streamVars, calls, inPacketSize>>

DiscoveryNext ==
    \/ \E device \in DeviceInputs, classCode \in {2, 10, 255} :
           ObservedFindInterface(device, classCode)
    \/ \E iface \in InterfaceShapes, direction \in {"in", "out"} :
           ObservedFindEndpoint(iface, direction)
    \/ \E device \in DeviceInputs : ObservedConstruct(device)
    \/ \E devices \in DeviceLists : ObservedGetPorts(devices)

DiscoverySpec == TwoInterfaceInit /\ [][DiscoveryNext]_vars

\* Interface i of the device declares the class in some alternate setting, or
\* in its first one.
Declares(device, i, class) ==
    \E a \in 1..Len(device[i]) : device[i][a].interfaceClass = class
DeclaresFirst(device, i, class) == device[i][1].interfaceClass = class

\* The interface has an endpoint of the direction in some alternate setting,
\* or in its first one.
HasEndpoint(iface, direction) ==
    \E a \in 1..Len(iface) : \E e \in 1..Len(iface[a].endpoints) :
        iface[a].endpoints[e].direction = direction
HasEndpointFirst(iface, direction) ==
    \E e \in 1..Len(iface[1].endpoints) : iface[1].endpoints[e].direction = direction

\* The first interface of the device that declares the class, by D.
FirstDeclaring(D(_, _, _), device, class) ==
    IF \E i \in 1..Len(device) : D(device, i, class)
    THEN CHOOSE i \in 1..Len(device) :
            D(device, i, class) /\ \A j \in 1..(i - 1) : ~D(device, j, class)
    ELSE NotFound

\* What the claim says of a lookup observed, with "declares" and "has an
\* endpoint" read as D and E.
LookupsAreFirstMatch(D(_, _, _), E(_, _)) ==
    /\ adapterEvent.kind = "findInterface" =>
         adapterEvent.data =
             FirstDeclaring(D, adapterEvent.transfers, adapterEvent.desiredSize)
    /\ adapterEvent.kind = "findEndpoint" =>
         LET iface == adapterEvent.transfers
             direction == adapterEvent.outcome
             found == adapterEvent.data
         IN  /\ (found = NotFound) <=> ~E(iface, direction)
             /\ found # NotFound =>
                  /\ iface[1].endpoints[found].direction = direction
                  /\ \A e \in 1..(found - 1) : iface[1].endpoints[e].direction # direction
    /\ adapterEvent.kind \in {"findInterface", "findEndpoint"} =>
         /\ serialOptions_ = NoOptions /\ calls = [c \in Calls |-> IdleCall]
         /\ ~opened /\ ~configured /\ claimed = {}

\* C26: findInterface returns the first interface, in declaration order, that
\* has an alternate setting declaring the class, and findEndpoint the first
\* endpoint of the interface with the direction; each fails with not-found
\* exactly when there is none; neither changes anything.
C26_FirstMatch == LookupsAreFirstMatch(Declares, HasEndpoint)

\* C26 for the first alternate setting of each interface: the first interface
\* whose first alternate setting declares the class, and the first endpoint
\* of the first alternate setting with the direction.
C26_FirstMatchInFirstAlternate == LookupsAreFirstMatch(DeclaresFirst, HasEndpointFirst)

\* findInterface did not find class 2 in a device whose first interface
\* declares it in its second alternate setting.
C26_SecondAlternateMissed ==
    /\ adapterEvent.kind = "findInterface"
    /\ adapterEvent.desiredSize = 2
    /\ Len(adapterEvent.transfers) >= 1
    /\ Declares(adapterEvent.transfers, 1, 2)
    /\ adapterEvent.data = NotFound

\* What the claim says of a construction or a getPorts() observed, with
\* "exposes" read as D and E.
DiscoveryYieldsPorts(D(_, _, _), E(_, _)) ==
    /\ adapterEvent.kind = "SerialPort" =>
         LET device == adapterEvent.transfers
             port == adapterEvent.data
             control == FirstDeclaring(D, device, 2)
             transfer == FirstDeclaring(D, device, 10)
         IN  /\ (control # NotFound /\ transfer # NotFound
                   /\ E(device[transfer], "in") /\ E(device[transfer], "out")) =>
                  /\ port.error = "none"
                  /\ port.controlInterface_ = control
                  /\ port.transferInterface_ = transfer
                  /\ port.controlInterface_ # port.transferInterface_
             /\ control = NotFound =>
                  port.error = "InterfaceNotFound" /\ port.what = 2
             /\ (control # NotFound /\ transfer = NotFound) =>
                  port.error = "InterfaceNotFound" /\ port.what = 10
    /\ adapterEvent.kind = "getPorts" =>
         LET devices == adapterEvent.transfers
             ports == adapterEvent.data
             succeeds(i) == SerialPort(devices[i], 2, 10).error = "none"
             places == SelectSeq([i \in 1..Len(devices) |-> i], succeeds)
         IN  /\ Len(ports) = Len(places)
             /\ \A k \in 1..Len(ports) :
                  /\ ports[k].device = places[k]
                  /\ ports[k].port = SerialPort(devices[places[k]], 2, 10)

\* C24: a device exposing alternate settings of classes 2 and 10 (its
\* class-10 interface having an in and an out endpoint) yields a port whose
\* control interface is the class-2 one and whose transfer interface is the
\* distinct class-10 one; a device missing a class fails construction with
\* the not-found error of that class; getPorts() returns, in device order,
\* the ports of exactly the devices whose construction succeeds.
C24_Discovery == DiscoveryYieldsPorts(Declares, HasEndpoint)

\* C24 for devices that expose the classes and the endpoints in the first
\* alternate setting of their interfaces.
C24_DiscoveryByFirstAlternate == DiscoveryYieldsPorts(DeclaresFirst, HasEndpointFirst)

\* Construction failed on a device that exposes class 2 in a second alternate
\* setting, and class 10 with both endpoints.
C24_ExposedButNotFound ==
    /\ adapterEvent.kind = "SerialPort"
    /\ adapterEvent.data.error = "InterfaceNotFound"
    /\ \E i, j \in 1..Len(adapterEvent.transfers) :
         /\ Declares(adapterEvent.transfers, i, 2)
         /\ DeclaresFirst(adapterEvent.transfers, j, 10)
         /\ HasEndpointFirst(adapterEvent.transfers[j], "in")
         /\ HasEndpointFirst(adapterEvent.transfers[j], "out")

\* getPorts() given two devices returned one port, that of the second, the
\* construction on the first having thrown.
C24_SkippedDevice ==
    /\ adapterEvent.kind = "getPorts"
    /\ Len(adapterEvent.transfers) = 2
    /\ Len(adapterEvent.data) = 1
    /\ adapterEvent.data[1].device = 2

(***************************************************************************)
(* ReconfigureSpec: reconfigure() calls, any MaxCalls of them in progress  *)
(* at once, with open() calls one at a time and the accessors.             *)
(***************************************************************************)
\* Options with fields left out, invalid options and complete valid ones.
ReconfigureInputs ==
    { o \in OptionInputs :
        \/ o.dataBits = Undef
        \/ o.stopBits = Num(3)
        \/ o = ValidOptions }

ReconfigureNext ==
    \/ OpenStep(1, StreamOptions)
    \/ \E c \in Calls : ReconfigureStep(c, ReconfigureInputs)
    \/ GetReadable
    \/ GetWritable
    \/ \E c \in Calls : Return(c)

ReconfigureSpec == TwoInterfaceInit /\ [][ReconfigureNext]_vars

\* The options after merging `given` over `current`, as the claim has it.
MergedAsClaimed(current, given) ==
    [baudRate |-> IF given.baudRate = Undef THEN current.baudRate ELSE given.baudRate,
     dataBits |-> IF given.dataBits = Undef THEN current.dataBits ELSE given.dataBits,
     stopBits |-> IF given.stopBits = Undef THEN current.stopBits ELSE given.stopBits,
     parity |-> IF given.parity = "undefined" THEN current.parity ELSE given.parity]

\* C25: reconfigure(options) merges the fields given over the current options,
\* validates the merged options and issues one Set_Line_Coding transfer built
\* from them, and no other device operation; it leaves the claimed
\* interfaces, the cached streams and the remembered signals as they were.
C25_ReconfigureFrame ==
    [][\A c \in Calls :
         /\ (calls[c].op = "idle" /\ calls'[c].op = "reconfigure") =>
              /\ \E given \in ReconfigureInputs :
                     serialOptions_' = MergedAsClaimed(serialOptions_, given)
              /\ IF InvalidOptions(serialOptions_')
                 THEN calls'[c].request = NoRequest /\ calls'[c].result = "RangeError"
                 ELSE /\ calls'[c].request.kind = "controlTransferOut"
                      /\ calls'[c].request.request = kSetLineCoding
                      /\ calls'[c].request.index = controlInterface_
                      /\ calls'[c].request.data = ExpectedLineCoding(serialOptions_')
         /\ (calls[c].op = "reconfigure" /\ calls'[c] # calls[c]) =>
              /\ calls[c].pc = "lineCoding" => calls'[c].pc = "done"
              /\ calls'[c].request = NoRequest
              /\ serialOptions_' = serialOptions_
         /\ ((calls[c].op = "reconfigure" \/ calls'[c].op = "reconfigure")
               /\ calls'[c] # calls[c]) =>
              UNCHANGED <<claimed, opened, configured, readable_, writable_,
                          outputSignals_, streamVars>>]_vars

\* reconfigure({baudRate: 115200, stopBits: 2}) on an open port with both
\* streams cached has issued its transfer: data bits 8 and parity none are
\* kept.
C25_Witness ==
    \E c \in Calls :
        /\ calls[c].op = "reconfigure" /\ calls[c].pc = "lineCoding"
        /\ calls[c].request.data = <<0, 194, 1, 0, 2, 0, 8>>
        /\ serialOptions_ = [baudRate |-> Num(115200), dataBits |-> Num(8),
                             stopBits |-> Num(2), parity |-> "none"]
        /\ opened /\ readable_ # Null /\ writable_ # Null

(***************************************************************************)
(* RetrySpec: open() and close(), one call at a time, the accessors, and   *)
(* the bulk transfers of both directions, the outcome of each recorded.    *)
(***************************************************************************)
RetryNext ==
    \/ OpenStep(1, StreamOptions)
    \/ CloseStep(1)
    \/ Return(1)
    \/ GetReadable
    \/ GetWritable
    \/ \E s \in StreamIds : Pull(s)
    \/ \E s \in StreamIds, outcome \in {"ok", "status", "throw"} :
         ObservedTransferInDone(s, outcome, IF outcome = "throw" THEN "none" ELSE "bytes")
    \/ \E w \in StreamIds : Write(w)
    \/ \E w \in StreamIds, outcome \in {"ok", "status", "throw"} :
         ObservedTransferOutDone(w, outcome)

RetrySpec == TwoInterfaceInit /\ [][RetryNext]_vars

\* Source s issues a transferIn, or sink w a transferOut, in this step.
IssuesTransferIn(s) == rPending'[s] > rPending[s]
IssuesTransferOut(w) ==
    \/ wPending'[w] > wPending[w]
    \/ /\ wPending[w] > 0 /\ wPending'[w] = wPending[w]
       /\ Len(wQueued'[w]) < Len(wQueued[w])
       /\ wState'[w] = "writable"

\* A transfer of stream s completes with a failure in this step.
TransferInFails(s) ==
    /\ rPending'[s] < rPending[s]
    /\ adapterEvent'.kind = "pullResumed" /\ adapterEvent'.outcome # "ok"
TransferOutFails(w) ==
    /\ wPending'[w] < wPending[w]
    /\ adapterEvent'.kind = "writeResumed" /\ adapterEvent'.outcome # "ok"

\* The open() in slot 1 has settled with a failure.
OpenHasFailed == calls[1].op = "open" /\ calls[1].pc = "done" /\ calls[1].result # "ok"

\* No bulk transfer is retried: the step in which a transfer fails leaves its
\* stream not usable and issues no transfer; a stream that is not usable
\* never becomes usable again and issues no transfer; a new stream comes
\* only from the accessor, read by the caller.
NoBulkRetry ==
    \A s \in StreamIds :
        /\ TransferInFails(s) => rState'[s] # "readable" /\ ~IssuesTransferIn(s)
        /\ (rState[s] # "readable" /\ rState[s] # "none") => rState'[s] # "readable"
        /\ IssuesTransferIn(s) => rState[s] = "readable"
        /\ (rState[s] = "none" /\ rState'[s] # "none") =>
             readable_' = s /\ readable_ = Null /\ calls' = calls
        /\ TransferOutFails(s) => wState'[s] # "writable" /\ ~IssuesTransferOut(s)
        /\ (wState[s] # "writable" /\ wState[s] # "none") => wState'[s] # "writable"
        /\ IssuesTransferOut(s) => wState[s] = "writable"
        /\ (wState[s] = "none" /\ wState'[s] # "none") =>
             writable_' = s /\ writable_ = Null /\ calls' = calls

\* C27: nothing is retried automatically: after a bulk transfer fails, no
\* further bulk transfer is issued in its direction until the caller obtains
\* a new stream through the accessor; and after open() has failed, no device
\* operation is issued until the caller calls again.
C27_NoAutomaticRetry ==
    [][/\ NoBulkRetry
       /\ OpenHasFailed =>
            /\ calls'[1] \in {calls[1], IdleCall}
            /\ \A s \in StreamIds : ~IssuesTransferIn(s) /\ ~IssuesTransferOut(s)]_vars

\* C27 for the bulk transfers and for the failed call itself: no bulk transfer
\* is retried, and an open() that has failed issues no further operation.
C27_NoRetryByTheFailedParty ==
    [][/\ NoBulkRetry
       /\ OpenHasFailed => calls'[1] \in {calls[1], IdleCall}]_vars

\* A stream constructed while open() was in progress has issued a transferIn
\* after that open() failed and closed the device.
C27_TransferAfterFailedOpen ==
    /\ OpenHasFailed
    /\ ~opened
    /\ \E s \in StreamIds : rPending[s] > 0 /\ rState[s] = "readable"

\* A transferIn and a transferOut have failed, both caches are cleared and
\* no transfer is in flight.
C27_BothDirectionsFailed ==
    /\ opened /\ readable_ = Null /\ writable_ = Null
    /\ \E s \in StreamIds : rState[s] = "errored"
    /\ \E w \in StreamIds : wState[w] = "errored"
    /\ adapterEvent.kind = "writeResumed" /\ adapterEvent.outcome = "throw"
    /\ \A s \in StreamIds : rPending[s] = 0 /\ wPending[s] = 0

(***************************************************************************)
(* LiveSpec: open() and close(), one call at a time, the readable          *)
(* accessor and the transfers of the read path.  A readable stream calls   *)
(* pull() when it is started and after each chunk enqueued while the       *)
(* consumer has demand, which it here always has: pull() is weakly fair.   *)
(* Every completed transfer carries data.                                  *)
(***************************************************************************)
LiveNext ==
    \/ OpenStep(1, StreamOptions)
    \/ CloseStep(1)
    \/ Return(1)
    \/ GetReadable
    \/ \E s \in StreamIds : Pull(s)
    \/ \E s \in StreamIds, outcome \in {"ok", "status", "throw"} :
         ObservedTransferInDone(s, outcome, IF outcome = "throw" THEN "none" ELSE "bytes")

LiveSpec ==
    /\ TwoInterfaceInit
    /\ [][LiveNext]_vars
    /\ \A s \in StreamIds : WF_vars(Pull(s))

C29_ErrorClearsOwnStreamOnly ==
    [][\A s \in StreamIds :
         /\ (rPending'[s] < rPending[s] /\ readable_ # Null /\ readable_' = Null)
              => readable_ = s
         /\ (wPending'[s] < wPending[s] /\ writable_ # Null /\ writable_' = Null)
              => writable_ = s]_vars

\* C29 for the read direction alone.
C29_ReadErrorClearsOwnStreamOnly ==
    [][\A s \in StreamIds :
         (rPending'[s] < rPending[s] /\ readable_ # Null /\ readable_' = Null)
            => readable_ = s]_vars

\* C29 for the write direction alone.
C29_WriteErrorClearsOwnStreamOnly ==
    [][\A s \in StreamIds :
         (wPending'[s] < wPending[s] /\ writable_ # Null /\ writable_' = Null)
            => writable_ = s]_vars

\* C30: every Set_Line_Coding payload the port issues, after any sequence and
\* interleaving of open() and reconfigure() calls, carries a stop-bits code in
\* {0, 2}, a parity code in {0, 1, 2} and a data-bits byte in
\* {5, 6, 7, 8, 16}; the byte 255 of a failed table lookup is never sent.
C30_LineCodingFieldsInRange ==
    [][\A c \in Calls :
         Issues(c, kSetLineCoding) =>
             LET data == calls'[c].request.data
             IN  /\ data[5] \in {0, 2}
                 /\ data[6] \in {0, 1, 2}
                 /\ data[7] \in {5, 6, 7, 8, 16}
                 /\ 255 \notin {data[5], data[6]}]_vars

\* C30 for the calls that pass validation and are not overtaken: a payload
\* issued while the stored options are valid has its three fields in range.
C30_ValidOptionsInRange ==
    [][\A c \in Calls :
         (Issues(c, kSetLineCoding) /\ validateOptions(serialOptions_') = "ok") =>
             LET data == calls'[c].request.data
             IN  /\ data[5] \in {0, 2}
                 /\ data[6] \in {0, 1, 2}
                 /\ data[7] \in {5, 6, 7, 8, 16}]_vars

\* A Set_Line_Coding whose stop-bits or parity byte is the 255 of a failed
\* table lookup is in flight.
C30_FailedLookupSent ==
    \E c \in Calls :
        /\ calls[c].request.request = kSetLineCoding
        /\ 255 \in {calls[c].request.data[5], calls[c].request.data[6]}

\* A Set_Line_Coding with a data-bits byte outside {5, 6, 7, 8, 16} is in
\* flight.
C30_DataBitsOutOfRangeSent ==
    \E c \in Calls :
        /\ calls[c].request.request = kSetLineCoding
        /\ calls[c].request.data[7] \notin {5, 6, 7, 8, 16}

\* The Set_Line_Coding or the DTR Set_Control_Line_State transfer of this
\* open() call completed with a non-success status.
OpenTransferStatusFailed(call) == call.failed = "status" \/ call.status = "status"

\* C31: open() completes successfully only if its Set_Line_Coding and its DTR
\* Set_Control_Line_State transfer both completed with success status: when
\* the device reports a non-success status for either, open() fails and with
\* the device closed.
C31_OpenNeedsBothTransfersOk ==
    [][\A c \in Calls :
         (Settles(c) /\ calls'[c].op = "open")
         => /\ calls'[c].result = "ok" => ~OpenTransferStatusFailed(calls'[c])
            /\ OpenTransferStatusFailed(calls'[c])
                 => (calls'[c].result = "SetupError" /\ ~opened')]_vars

\* C31 for Set_Line_Coding alone: a non-success status of that transfer makes
\* open() fail with the device closed, and no open() resolves after it.
C31_LineCodingStatusFailsOpen ==
    [][\A c \in Calls :
         (Settles(c) /\ calls'[c].op = "open" /\ calls'[c].failed = "status")
         => (calls'[c].result = "SetupError" /\ ~opened')]_vars

\* An open() that resolved, leaving the device open, after the status of its
\* DTR transfer was not 'ok'.
C31_ResolvedAfterDtrStatus ==
    \E c \in Calls : /\ calls[c].op = "open" /\ calls[c].pc = "done"
                     /\ calls[c].result = "ok" /\ calls[c].status = "status"
                     /\ calls[c].failed = "none"
                     /\ opened /\ claimed # {}

\* An open() that failed on the status of Set_Line_Coding, the device closed.
C31_FailedOnLineCodingStatus ==
    \E c \in Calls : /\ calls[c].op = "open" /\ calls[c].pc = "done"
                     /\ calls[c].failed = "status"
                     /\ calls[c].result = "SetupError" /\ ~opened

\* The bitmap of a signal state: bit 0 is DTR, bit 1 is RTS.
SignalBitmap(signals) ==
    (IF signals.dataTerminalReady = "true" THEN 1 ELSE 0)
    + (IF signals.requestToSend = "true" THEN 2 ELSE 0)

\* C32: the value of the most recently issued Set_Control_Line_State transfer
\* equals the bitmap (bit 0 DTR, bit 1 RTS) of the remembered output signals,
\* for every interleaving of setSignals calls, open() and close(): every step
\* that issues the transfer issues it with the bitmap of the signals remembered
\* after the step, and every step that changes that bitmap issues the transfer.
C32_LastControlLineIsRemembered ==
    [][/\ \A c \in Calls :
            Issues(c, kSetControlLineState)
               => calls'[c].request.value = SignalBitmap(outputSignals_')
       /\ SignalBitmap(outputSignals_') # SignalBitmap(outputSignals_)
            => \E c \in Calls : Issues(c, kSetControlLineState)]_vars

\* close() is suspended on its Set_Control_Line_State of value 0 and a
\* setSignals call issued after it is suspended on one whose value, 2, is the
\* bitmap of the remembered signals.
C32_Witness ==
    \E c \in Calls, d \in Calls :
        /\ calls[c].op = "close" /\ calls[c].pc = "controlLine"
        /\ calls[c].request.value = 0
        /\ calls[d].op = "setSignals" /\ calls[d].pc = "controlLine"
        /\ calls[d].request.value = 2
        /\ SignalBitmap(outputSignals_) = 2

\* The Send_Break value for a `break` field: 0xFFFF for true, 0 for false.
BreakValueOf(break) == IF break = "true" THEN 65535 ELSE 0

\* C33: the Send_Break transfer a setSignals call issues carries the value for
\* the `break` field passed to that same call, whatever other setSignals calls
\* run while it is suspended on its Set_Control_Line_State transfer.
C33_BreakValueIsTheCallsOwn ==
    [][\A c \in Calls :
         Issues(c, kSendBreak)
            => calls'[c].request.value = BreakValueOf(calls'[c].signals.break)]_vars

\* C33 for a call that gives neither DTR nor RTS, whose Send_Break is issued in
\* the step of the call itself: the value is that of its own `break` field.
C33_BreakValueWithoutControlLine ==
    [][\A c \in Calls :
         (Issues(c, kSendBreak) /\ calls[c].op = "idle")
            => calls'[c].request.value = BreakValueOf(calls'[c].signals.break)]_vars

\* A setSignals call that passed break: true is suspended on a Send_Break of
\* value 0.
C33_BreakOfAnotherCall ==
    \E c \in Calls :
        /\ calls[c].op = "setSignals" /\ calls[c].pc = "sendBreak"
        /\ calls[c].signals.break = "true"
        /\ calls[c].request.value = 0

(***************************************************************************)
(* BaudSpec: open(), reconfigure() and close(), one call at a time, with   *)
(* baud rates of either sign, up to 2^31 - 1 and beyond 2^32.              *)
(***************************************************************************)
BaudInputs ==
    { [ValidOptions EXCEPT !.baudRate = b] :
        b \in { Num(9600), Num(0), Num(2147483647), Num(-9600), Num(-1), Over(0),
                Over(9600), Half(9600) } }

BaudNext ==
    \/ OpenStep(1, BaudInputs)
    \/ ReconfigureStep(1, BaudInputs)
    \/ CloseStep(1)
    \/ Return(1)

BaudSpec == TwoInterfaceInit /\ [][BaudNext]_vars

\* The baud rate is an integer of 0 .. 2^32 - 1.
BaudRateIn32Bits(baudRate) == baudRate.t = "num" /\ baudRate.v >= 0

\* The unsigned 32-bit little-endian value of bytes 0..3 of the payload is
\* this baud rate (compared by 16-bit halves).
BaudRateSent(data, baudRate) ==
    /\ BaudRateIn32Bits(baudRate)
    /\ data[1] + 256 * data[2] = baudRate.v % 65536
    /\ data[3] + 256 * data[4] = baudRate.v \div 65536

\* C34: for every open() or reconfigure() that passes validation, the unsigned
\* 32-bit little-endian value of bytes 0..3 of the Set_Line_Coding payload is
\* the requested baud rate; a baud rate that is negative or of more than 32
\* bits is rejected by validation, not sent modulo 2^32.
C34_BaudRateSentExactly ==
    [][\A c \in Calls :
         /\ (Issues(c, kSetLineCoding) /\ validateOptions(serialOptions_') = "ok")
              => BaudRateSent(calls'[c].request.data, serialOptions_'.baudRate)
         /\ (calls[c].op = "idle" /\ calls'[c].op \in {"open", "reconfigure"}
               /\ ~BaudRateIn32Bits(serialOptions_'.baudRate))
              => (calls'[c].pc = "done" /\ calls'[c].result = "RangeError")]_vars

\* C34 for the baud rates of 0 .. 2^32 - 1: the payload of a call that passes
\* validation carries the baud rate requested.
C34_BaudRateIn32BitsSentExactly ==
    [][\A c \in Calls :
         (Issues(c, kSetLineCoding) /\ validateOptions(serialOptions_') = "ok"
            /\ BaudRateIn32Bits(serialOptions_'.baudRate))
         => BaudRateSent(calls'[c].request.data, serialOptions_'.baudRate)]_vars

\* A Set_Line_Coding for the baud rate -9600 is in flight, carrying
\* 4294957696.
C34_NegativeBaudRateSent ==
    \E c \in Calls :
        /\ calls[c].request.request = kSetLineCoding
        /\ serialOptions_.baudRate = Num(-9600)
        /\ calls[c].request.data = <<128, 218, 255, 255, 0, 0, 8>>

\* A Set_Line_Coding for the baud rate 2^32 + 9600 is in flight, carrying
\* 9600.
C34_WrappedBaudRateSent ==
    \E c \in Calls :
        /\ calls[c].request.request = kSetLineCoding
        /\ serialOptions_.baudRate = Over(9600)
        /\ calls[c].request.data = <<128, 37, 0, 0, 0, 0, 8>>

(***************************************************************************)
(* SettleSpec: open() and close(), one call at a time, a                   *)
(* setSignals({break: true}) call made while one of them is                *)
(* suspended, the accessors, the producer's                                *)
(* writes and the pulls of the readable stream.  Every device operation    *)
(* that open() or close() is suspended on completes, successfully or not,  *)
(* as does every transferOut, and the continuation of a settled            *)
(* Promise.all runs: these steps are weakly fair.  Nothing is assumed of   *)
(* the transferIn of a read, nor of the caller, the consumer and the       *)
(* producer.                                                               *)
(***************************************************************************)
SettleNext ==
    \/ OpenStep(1, StreamOptions)
    \/ CloseStep(1)
    \/ CallSetSignals(2, [NoSignals EXCEPT !.break = "true"])
    \/ \E outcome \in {"ok", "status", "throw"} : SetSignalsBreakDone(2, outcome)
    \/ \E c \in Calls : Return(c)
    \/ StreamStep

\* The operation that open() or close() call c is suspended on completes.
CallOperationDone(c) ==
    \/ \E outcome \in {"ok", "throw"} : OpenDeviceDone(c, outcome)
    \/ \E outcome \in {"ok", "throw"} : SelectConfigurationDone(c, outcome)
    \/ \E outcome \in {"ok", "throw"} : ClaimControlDone(c, outcome)
    \/ \E outcome \in {"ok", "throw"} : ClaimTransferDone(c, outcome)
    \/ \E outcome \in {"ok", "status", "throw"} : OpenLineCodingDone(c, outcome)
    \/ \E outcome \in {"ok", "status", "throw"} : OpenControlLineDone(c, outcome)
    \/ OpenCleanupDone(c)
    \/ CloseTeardownDone(c)
    \/ \E outcome \in {"ok", "status", "throw"} : CloseControlLineDone(c, outcome)
    \/ CloseDeviceDone(c)

SettleFairness ==
    /\ WF_vars(CallOperationDone(1))
    /\ \A w \in StreamIds :
         WF_vars(\E outcome \in {"ok", "status", "throw"} : TransferOutDone(w, outcome))

SettleSpec == TwoInterfaceInit /\ [][SettleNext]_vars /\ SettleFairness

\* C35: if every device operation eventually completes, successfully or not,
\* every open() call and every close() call (they are made in slot 1)
\* eventually settles, under any interleaving with reads, writes and
\* setSignals calls.
C35_OpenAndCloseSettle ==
    (calls[1].op \in {"open", "close"} /\ calls[1].pc # "done")
        ~> (calls[1].pc = "done")

\* close() is suspended on the abort() of a writable stream that has a
\* transferOut in flight, while a setSignals call is suspended on its
\* Send_Break and the readable stream has a transferIn in flight.
C35_Witness ==
    /\ calls[1].op = "close" /\ calls[1].pc = "teardown"
    /\ calls[1].abortOf # Null /\ wPending[calls[1].abortOf] > 0
    /\ calls[2].op = "setSignals" /\ calls[2].pc = "sendBreak"
    /\ \E s \in StreamIds : rPending[s] > 0
=============================================================================
